---------------------------- MODULE Spec2Model ----------------------------
(***************************************************************************)
(* Verification model of the ddafa cone-beam reconstruction core:          *)
(*   - FeldkampScheduler (volume geometry, chunk halving, sub-volume       *)
(*     offsets, sub-projection borders) and Feldkamp::create_volumes;      *)
(*   - the pipeline stages weighting_stage, CUDAWeighting, CUDAFilter;     *)
(*   - the back-projection stage Feldkamp (device workers, angle tables).  *)
(*                                                                         *)
(* float values are modelled by exact rationals [n, d] (d > 0, lowest      *)
(* terms); the geometries are those whose cone half-angle has a rational   *)
(* sine, so that sin(atan(q)) is computed exactly.                         *)
(***************************************************************************)
EXTENDS Integers, Sequences, FiniteSets, TLC

(***************************************************************************)
(* Bounds of the model                                                     *)
(***************************************************************************)
MaxDevices == 2
MaxRows == 6
MaxCols == 3
MaxDist == 3
MaxOffset == 1
MaxProjs == 2
MaxAngles == 2
MaxTab == 4

(***************************************************************************)
(* Program constants                                                       *)
(***************************************************************************)
SizeofT == 4
\* the value of std::ios_base::end, which parse_angles compares tellg() with
ios_base_end == 2

VARIABLES
    \* ---- FeldkampScheduler / Feldkamp::create_volumes ----
    geo,                  \* common::Geometry handed to the scheduler
    devices_,             \* cudaGetDeviceCount
    totalGlobalMem,       \* cudaDeviceProp::totalGlobalMem of each device
    sched_pc,             \* position in the FeldkampScheduler constructor
    vol_geo_,             \* FeldkampScheduler::vol_geo_
    volume_height_,       \* FeldkampScheduler::volume_height_
    volume_bytes_,        \* FeldkampScheduler::volume_bytes_
    volume_count_,        \* FeldkampScheduler::volume_count_
    volumes_per_device_,  \* std::map<int, uint32>
    offset_per_volume_,   \* std::map<int, std::map<uint32, size_t>>
    subproj_dims_,        \* std::vector<std::pair<uint32, uint32>>
    subprojs_,            \* std::map<int, std::vector<pair>>
    offset_per_subproj_,  \* std::map<int, std::map<uint32, size_t>>
    dev_i,                \* loop variable i of calculate_volumes_per_device
    vol_size_dev,         \* local of calculate_volumes_per_device
    vol_count_dev,        \* local of calculate_volumes_per_device
    volume_map_,          \* Feldkamp::volume_map_ (depth of each sub-volume)
    \* ---- pipeline stages weighting_stage, CUDAWeighting, CUDAFilter ----
    stage,                \* which stage implementation runs
    stage_devices_,       \* CUDAWeighting::devices_ / CUDAFilter::devices_
    input_,               \* projections the stage has still to receive
    received_,            \* projections the stage has taken from its input
    output_,              \* everything pushed downstream (output_ / results_)
    run_pc,               \* position of run() / of the thread calling process()
    run_p,                \* local p of weighting_stage::run
    run_error,            \* the GPU exception caught by weighting_stage::run
    processor_threads_,   \* std::vector<std::thread> of the CUDA stages
    \* ---- back-projection stage Feldkamp ----
    fdk_devices_,         \* Feldkamp::devices_
    fdk_input,            \* projections still to be passed to Feldkamp::process
    process_pc,           \* position of the thread calling Feldkamp::process
    map_imgs_,            \* Feldkamp::map_imgs_: the queue of each device
    proc_pc,              \* position of each device's Feldkamp::processor
    proc_img,             \* local img of each Feldkamp::processor
    fill_i,               \* loop variable i of the table-building lambda
    num_arg,              \* the number of projections the source announces
    set_pc,               \* position of the thread calling set_input_num
    input_num_,           \* Feldkamp::input_num_
    input_num_set_,       \* Feldkamp::input_num_set_
    angle_tabs_created_,  \* Feldkamp::angle_tabs_created_
    angle_flag_,          \* Feldkamp::angle_flag_ (std::once_flag)
    sin_tab_,             \* Feldkamp::sin_tab_
    cos_tab_,             \* Feldkamp::cos_tab_
    constructions,        \* how often the table-building lambda was entered
    launched,             \* the back-projection kernels launched so far
    fdk_results_,         \* Feldkamp::results_
    done_,                \* Feldkamp::done_
    angles,               \* the angle file named by the constructor's argument
    ctor_pc,              \* position in the Feldkamp constructor
    file_tok,             \* parse_angles: angles extracted from the file so far
    file_good,            \* parse_angles: the stream has met neither its end nor an error
    rot_angle,            \* geo_.rot_angle, in degrees
    fill_angle,           \* local angle of the table-building lambda
    fdk_scheduler_,       \* what Feldkamp reads from scheduler_: sub-volumes per device, vol_geo_
    fdk_volume_map_,      \* Feldkamp::volume_map_: the sub-volumes created on each device
    kernel_log,           \* the backproject launches of each device, in order
    wait_values,          \* the values Feldkamp::wait has returned, in order
    \* ---- Feldkamp::merge_volumes ----
    merge_output,         \* the copies into the local output, and whether it was pushed
    \* ---- the kernel backproject ----
    bp_args,              \* the arguments of the launch and the sub-volume's place in the plan
    bp_next,              \* the number of threads of the launch that have run
    bp_vol,               \* the voxels of the sub-volume
    bp_trace,             \* the locals of the thread that ran last
    \* ---- the accumulation row[k] += ... of one voxel ----
    acc_pending,          \* the contributions of the projections still to be added
    acc_row,              \* the voxel row[k]
    acc_added,            \* the contributions added so far, in their order
    \* ---- apply_roi ----
    roi_args,             \* vol_geo and the six ROI coordinates
    roi_geo,              \* the geometry apply_roi returns
    \* ---- the kernel backproject on scenario S1 ----
    s1_args,              \* the arguments of the launch
    s1_next,              \* linear index of the next thread of the grid
    s1_vol,               \* the voxels that no longer hold init_volume's 0.f
    s1_trace,             \* the locals of the thread that ran last
    \* ---- the members the constructors derive from the geometry ----
    det_geo,              \* the common::Geometry / detector geometry handed over
    members_,             \* component -> the members its constructor has set
    weighted,             \* the locals of the weighting-kernel thread that ran last
    \* ---- CUDAFilter: filter creation and zero-padding ----
    flt_geo,              \* the common::Geometry handed to CUDAFilter
    flt_members,          \* CUDAFilter::filter_length_ and tau_
    flt_pc,               \* position in filterProcessor / processor
    j_loop,               \* the locals k and j of the loop of filterProcessor
    j_host_buffer,        \* index -> value written by the loop, past the end included
    rs_,                  \* the filter kernel createFilter has written
    converted             \* the padded buffer convertProjection has written

schedVars == <<geo, devices_, totalGlobalMem, sched_pc, vol_geo_, volume_height_,
               volume_bytes_, volume_count_, volumes_per_device_, offset_per_volume_,
               subproj_dims_, subprojs_, offset_per_subproj_, dev_i, vol_size_dev,
               vol_count_dev, volume_map_>>

stageVars == <<stage, stage_devices_, input_, received_, output_, run_pc, run_p, run_error,
               processor_threads_>>

fdkVars == <<fdk_devices_, fdk_input, process_pc, map_imgs_, proc_pc, proc_img,
             fill_i, num_arg, set_pc, input_num_, input_num_set_,
             angle_tabs_created_, angle_flag_, sin_tab_, cos_tab_, constructions,
             launched, fdk_results_, done_, angles, ctor_pc, file_tok, file_good,
             rot_angle, fill_angle, fdk_scheduler_, fdk_volume_map_, kernel_log,
             wait_values>>

\* what only the Feldkamp constructor and the table-building lambda write
parseVars == <<angles, ctor_pc, file_tok, file_good, rot_angle>>
ctorVars == <<parseVars, fill_angle>>

mergeVars == <<merge_output>>
kernelVars == <<bp_args, bp_next, bp_vol, bp_trace>>
accumVars == <<acc_pending, acc_row, acc_added>>
roiVars == <<roi_args, roi_geo>>
s1Vars == <<s1_args, s1_next, s1_vol, s1_trace>>
weightVars == <<det_geo, members_, weighted>>
filterVars == <<flt_geo, flt_members, flt_pc, j_loop, j_host_buffer, rs_, converted>>
auxVars == <<kernelVars, accumVars, roiVars, s1Vars, weightVars, filterVars>>

vars == <<schedVars, stageVars, fdkVars, mergeVars, auxVars>>

\* the state an action of one component leaves alone
notSched == <<stageVars, fdkVars, mergeVars, auxVars>>
notStage == <<schedVars, fdkVars, mergeVars, auxVars>>
notFdk == <<schedVars, stageVars, mergeVars, auxVars>>
notKernel == <<schedVars, stageVars, fdkVars, mergeVars, accumVars, roiVars, s1Vars, weightVars, filterVars>>
notAccum == <<schedVars, stageVars, fdkVars, mergeVars, kernelVars, roiVars, s1Vars, weightVars, filterVars>>
notRoi == <<schedVars, stageVars, fdkVars, mergeVars, kernelVars, accumVars, s1Vars, weightVars, filterVars>>
notS1 == <<schedVars, stageVars, fdkVars, mergeVars, kernelVars, accumVars, roiVars, weightVars, filterVars>>
notWeight == <<schedVars, stageVars, fdkVars, mergeVars, kernelVars, accumVars, roiVars, s1Vars, filterVars>>
notFilter == <<schedVars, stageVars, fdkVars, mergeVars, kernelVars, accumVars, roiVars, s1Vars, weightVars>>

\* no kernel has been launched
KernelIdle ==
    /\ bp_args = [launched |-> FALSE]
    /\ bp_next = 0
    /\ bp_vol = << >>
    /\ bp_trace = << >>

\* no voxel is being accumulated
AccumIdle ==
    /\ acc_pending = << >>
    /\ acc_row = 0
    /\ acc_added = << >>

\* apply_roi has not been called
RoiIdle ==
    /\ roi_args = [called |-> FALSE]
    /\ roi_geo = [returned |-> FALSE]

\* the kernel has not been launched on scenario S1
S1Idle ==
    /\ s1_args = [launched |-> FALSE]
    /\ s1_next = 0
    /\ s1_vol = << >>
    /\ s1_trace = << >>

\* no component has been constructed from a geometry
WeightIdle ==
    /\ det_geo = << >>
    /\ members_ = << >>
    /\ weighted = << >>

\* no CUDAFilter has been constructed
FilterIdle ==
    /\ flt_geo = << >>
    /\ flt_members = << >>
    /\ flt_pc = "idle"
    /\ j_loop = << >>
    /\ j_host_buffer = << >>
    /\ rs_ = << >>
    /\ converted = << >>

\* merge_volumes has not run
MergeIdle == merge_output = [pushed |-> FALSE, copies |-> << >>]

\* none of the functions modelled on their own has been called
AuxIdle == MergeIdle /\ KernelIdle /\ AccumIdle /\ RoiIdle /\ S1Idle /\ WeightIdle /\ FilterIdle

\* output_type{} / input_type(): the end-of-stream sentinel (valid = false)
Sentinel == [valid |-> FALSE, index |-> 0, device |-> 0]

\* a valid projection with its index and the device it is bound to
Projection(i, d) == [valid |-> TRUE, index |-> i, device |-> d]

\* no pipeline stage has been started
StageIdle ==
    /\ stage = "none"
    /\ stage_devices_ = 0
    /\ input_ = << >>
    /\ received_ = << >>
    /\ output_ = << >>
    /\ run_pc = "idle"
    /\ run_p = Sentinel
    /\ run_error = "none"
    /\ processor_threads_ = << >>

\* no back-projection stage has been constructed
FdkIdle ==
    /\ fdk_devices_ = 0
    /\ fdk_input = << >>
    /\ process_pc = "idle"
    /\ map_imgs_ = << >>
    /\ proc_pc = << >>
    /\ proc_img = << >>
    /\ fill_i = << >>
    /\ num_arg = 0
    /\ set_pc = "idle"
    /\ input_num_ = 0
    /\ input_num_set_ = FALSE
    /\ angle_tabs_created_ = FALSE
    /\ angle_flag_ = "idle"
    /\ sin_tab_ = << >>
    /\ cos_tab_ = << >>
    /\ constructions = 0
    /\ launched = {}
    /\ fdk_results_ = << >>
    /\ done_ = FALSE
    /\ angles = [name |-> "", openable |-> FALSE, tokens |-> << >>, eol |-> FALSE]
    /\ ctor_pc = "idle"
    /\ file_tok = 0
    /\ file_good = FALSE
    /\ fdk_scheduler_ = << >>
    /\ fdk_volume_map_ = << >>
    /\ kernel_log = << >>
    /\ wait_values = << >>
    /\ rot_angle = 0
    /\ fill_angle = << >>

\* the components other than the scheduler are not running
NotSchedIdle == StageIdle /\ FdkIdle /\ AuxIdle

(***************************************************************************)
(* float arithmetic, modelled exactly                                      *)
(***************************************************************************)
Abs(x) == IF x < 0 THEN -x ELSE x

RECURSIVE GCD(_, _)
GCD(a, b) == IF b = 0 THEN a ELSE GCD(b, a % b)

Q(n, d) ==
    LET s == IF d < 0 THEN -1 ELSE 1
        g == GCD(Abs(n), Abs(d))
    IN  [n |-> (s * n) \div g, d |-> (s * d) \div g]

QInt(i) == [n |-> i, d |-> 1]
QAdd(a, b) == Q(a.n * b.d + b.n * a.d, a.d * b.d)
QNeg(a) == [n |-> -a.n, d |-> a.d]
QSub(a, b) == QAdd(a, QNeg(b))
QMul(a, b) == Q(a.n * b.n, a.d * b.d)
QDiv(a, b) == Q(a.n * b.d, a.d * b.n)
QAbs(a) == [n |-> Abs(a.n), d |-> a.d]
QLt(a, b) == a.n * b.d < b.n * a.d
QLe(a, b) == a.n * b.d <= b.n * a.d
QFloor(a) == a.n \div a.d
QCeil(a) == -((-a.n) \div a.d)
\* static_cast<std::size_t>(float): truncation toward zero
QTrunc(a) == IF a.n >= 0 THEN a.n \div a.d ELSE -((-a.n) \div a.d)

IsSquare(n) == \E k \in 0..n : k * k = n
ISqrt(n) == CHOOSE k \in 0..n : k * k = n

\* std::sin(std::atan(q)) = q / sqrt(1 + q^2), exact when n^2 + d^2 is a square
SinAtan(q) == Q(q.n, ISqrt(q.n * q.n + q.d * q.d))
HasRationalSine(q) == IsSquare(q.n * q.n + q.d * q.d)

(***************************************************************************)
(* FeldkampScheduler: volume geometry                                      *)
(***************************************************************************)
\* dist_sd_ in the constructor's initializer list
dist_sd_(g) == Abs(g.dist_det) + Abs(g.dist_src)

\* (N_h * d_h) / 2 + |delta_h|
HalfWidth(g) ==
    QAdd(Q(g.det_pixels_row * g.det_pixel_size_horiz, 2),
         QInt(Abs(g.det_offset_horiz * g.det_pixel_size_horiz)))

calculate_volume_geo(g) ==
    LET d_h == QInt(g.det_pixel_size_horiz)
        half == HalfWidth(g)
        r == QMul(QInt(Abs(g.dist_src)), SinAtan(QDiv(half, QInt(dist_sd_(g)))))
        voxel_size_x == QDiv(r, QDiv(half, d_h))
        dim_x == QTrunc(QDiv(QMul(QInt(2), r), voxel_size_x))
        N_v == g.det_pixels_column
        d_v == g.det_pixel_size_vert
        delta_v == g.det_offset_vert * d_v
        dim_z == QTrunc(QMul(QMul(QAdd(Q(N_v * d_v, 2), QInt(Abs(delta_v))),
                                  Q(Abs(g.dist_src), dist_sd_(g))),
                             QDiv(QInt(2), voxel_size_x)))
    IN  [dim_x |-> dim_x, dim_y |-> dim_x, dim_z |-> dim_z,
         voxel_size_x |-> voxel_size_x, voxel_size_y |-> voxel_size_x,
         voxel_size_z |-> voxel_size_x]

calculate_volume_height_mm(vg) == QMul(QInt(vg.dim_z), vg.voxel_size_z)

calculate_volume_bytes(vg) == vg.dim_x * vg.dim_y * vg.dim_z * SizeofT

(***************************************************************************)
(* Inputs of the scheduler                                                 *)
(***************************************************************************)
PixelSizes == {1}

\* the scheduler reads det_offset_horiz only through std::abs (line 136), so
\* the detector geometries are taken with a non-negative horizontal offset
GeoSet ==
    {g \in [det_pixels_row : 1..MaxRows, det_pixels_column : 1..MaxCols,
            det_pixel_size_horiz : PixelSizes, det_pixel_size_vert : PixelSizes,
            det_offset_horiz : 0..MaxOffset,
            det_offset_vert : (-MaxOffset)..MaxOffset,
            dist_src : 1..MaxDist, dist_det : 1..MaxDist] :
        HasRationalSine(QDiv(HalfWidth(g), QInt(dist_sd_(g))))}

\* bytes of the whole volume (volume_bytes_ before it is divided by devices_)
bytes_per_volume(g) == calculate_volume_bytes(calculate_volume_geo(g))

\* bytes of one z-slice of the volume: no sub-volume can be thinner
slice_bytes(g) ==
    LET vg == calculate_volume_geo(g) IN vg.dim_x * vg.dim_y * SizeofT

\* device memories around the halving thresholds of the volume, and a device
\* one byte too small for a single z-slice
MemChoices(g) ==
    {m \in {bytes_per_volume(g) + 1, bytes_per_volume(g) \div 2,
            (bytes_per_volume(g) \div 4) - 1, slice_bytes(g) - 1} : m >= 1}

EmptyMap == [k \in {} |-> 0]

\* std::map::emplace: inserts the pair unless the key is present
Emplace(m, k, v) ==
    [x \in (DOMAIN m) \cup {k} |-> IF x \in DOMAIN m THEN m[x] ELSE v]

\* no geometry yet: the singleton has not been constructed
NoGeometry ==
    [det_pixels_row |-> 0, det_pixels_column |-> 0, det_pixel_size_horiz |-> 0,
     det_pixel_size_vert |-> 0, det_offset_horiz |-> 0, det_offset_vert |-> 0,
     dist_src |-> 0, dist_det |-> 0]

\* no scheduler has been constructed
SchedIdle ==
    /\ geo = NoGeometry
    /\ devices_ = 0
    /\ totalGlobalMem = EmptyMap
    /\ sched_pc = "instance"
    /\ vol_geo_ = [dim_x |-> 0, dim_y |-> 0, dim_z |-> 0,
                   voxel_size_x |-> QInt(0), voxel_size_y |-> QInt(0),
                   voxel_size_z |-> QInt(0)]
    /\ volume_height_ = QInt(0)
    /\ volume_bytes_ = 0
    /\ volume_count_ = 0
    /\ volumes_per_device_ = EmptyMap
    /\ offset_per_volume_ = EmptyMap
    /\ subproj_dims_ = << >>
    /\ subprojs_ = EmptyMap
    /\ offset_per_subproj_ = EmptyMap
    /\ dev_i = 0
    /\ vol_size_dev = 0
    /\ vol_count_dev = 0
    /\ volume_map_ = EmptyMap

SchedInit == NotSchedIdle /\ SchedIdle

\* FeldkampScheduler::instance(geo): the geometry of the run, the device count
\* and the memory of each device as the CUDA runtime reports them
instance ==
    /\ sched_pc = "instance"
    /\ \E g \in GeoSet : \E n \in 1..MaxDevices :
          \E mem \in [0..(n - 1) -> MemChoices(g)] :
            /\ geo' = g
            /\ devices_' = n
            /\ totalGlobalMem' = mem
    /\ sched_pc' = "calculate_volume_geo"
    /\ UNCHANGED notSched
    /\ UNCHANGED <<vol_geo_, volume_height_, volume_bytes_, volume_count_,
                   volumes_per_device_, offset_per_volume_, subproj_dims_,
                   subprojs_, offset_per_subproj_, dev_i, vol_size_dev,
                   vol_count_dev, volume_map_>>

(***************************************************************************)
(* FeldkampScheduler accessors                                             *)
(***************************************************************************)
get_volume_num(device) ==
    IF device \in DOMAIN volumes_per_device_ THEN volumes_per_device_[device] ELSE 0

get_volume_offset(device, index) ==
    IF device \in DOMAIN offset_per_volume_
       /\ index \in DOMAIN offset_per_volume_[device]
    THEN offset_per_volume_[device][index]
    ELSE 0

get_subproj_dims(device, index) ==
    IF device \in DOMAIN subprojs_ /\ (index + 1) \in DOMAIN subprojs_[device]
    THEN subprojs_[device][index + 1]
    ELSE <<0, 0>>

get_subproj_offset(device, index) ==
    IF device \in DOMAIN offset_per_subproj_
       /\ index \in DOMAIN offset_per_subproj_[device]
    THEN offset_per_subproj_[device][index]
    ELSE 0

(***************************************************************************)
(* FeldkampScheduler constructor, step by step                             *)
(***************************************************************************)
SchedGeoStep ==
    /\ sched_pc = "calculate_volume_geo"
    /\ vol_geo_' = calculate_volume_geo(geo)
    /\ sched_pc' = "calculate_volume_height_mm"
    /\ UNCHANGED notSched
    /\ UNCHANGED <<geo, devices_, totalGlobalMem, volume_height_, volume_bytes_,
                   volume_count_, volumes_per_device_, offset_per_volume_,
                   subproj_dims_, subprojs_, offset_per_subproj_, dev_i,
                   vol_size_dev, vol_count_dev, volume_map_>>

SchedHeightStep ==
    /\ sched_pc = "calculate_volume_height_mm"
    /\ volume_height_' = calculate_volume_height_mm(vol_geo_)
    /\ sched_pc' = "calculate_volume_bytes"
    /\ UNCHANGED notSched
    /\ UNCHANGED <<geo, devices_, totalGlobalMem, vol_geo_, volume_bytes_,
                   volume_count_, volumes_per_device_, offset_per_volume_,
                   subproj_dims_, subprojs_, offset_per_subproj_, dev_i,
                   vol_size_dev, vol_count_dev, volume_map_>>

SchedBytesStep ==
    /\ sched_pc = "calculate_volume_bytes"
    /\ volume_bytes_' = calculate_volume_bytes(vol_geo_)
    /\ sched_pc' = "calculate_volumes_per_device"
    /\ UNCHANGED notSched
    /\ UNCHANGED <<geo, devices_, totalGlobalMem, vol_geo_, volume_height_,
                   volume_count_, volumes_per_device_, offset_per_volume_,
                   subproj_dims_, subprojs_, offset_per_subproj_, dev_i,
                   vol_size_dev, vol_count_dev, volume_map_>>

\* calculate_volumes_per_device: volume_bytes_ /= devices_, then the loop
calculate_volumes_per_device ==
    /\ sched_pc = "calculate_volumes_per_device"
    /\ volume_bytes_' = volume_bytes_ \div devices_
    /\ dev_i' = 0
    /\ sched_pc' = "for_device"
    /\ UNCHANGED notSched
    /\ UNCHANGED <<geo, devices_, totalGlobalMem, vol_geo_, volume_height_,
                   volume_count_, volumes_per_device_, offset_per_volume_,
                   subproj_dims_, subprojs_, offset_per_subproj_,
                   vol_size_dev, vol_count_dev, volume_map_>>

\* loop head: i < devices_, vol_size_dev = volume_bytes_, vol_count_dev = 1u
ForDevice ==
    /\ sched_pc = "for_device"
    /\ IF dev_i < devices_
       THEN /\ vol_size_dev' = volume_bytes_
            /\ vol_count_dev' = 1
            /\ sched_pc' = "calcVolumeSizePerDev"
       ELSE /\ sched_pc' = "calculate_subvolume_offsets"
            /\ UNCHANGED <<vol_size_dev, vol_count_dev>>
    /\ UNCHANGED notSched
    /\ UNCHANGED <<geo, devices_, totalGlobalMem, vol_geo_, volume_height_,
                   volume_bytes_, volume_count_, volumes_per_device_,
                   offset_per_volume_, subproj_dims_, subprojs_,
                   offset_per_subproj_, dev_i, volume_map_>>

\* faulty variant: a chunk exactly as large as the device memory is taken to fit
MustHalve_Strict(volume_size, dev_mem) == volume_size > dev_mem

\* the test of the recursive lambda: divide once more?
MustHalve(volume_size, dev_mem) == volume_size >= dev_mem

\* one level of the recursive lambda calcVolumeSizePerDev
calcVolumeSizePerDev ==
    /\ sched_pc = "calcVolumeSizePerDev"
    /\ IF MustHalve(vol_size_dev, totalGlobalMem[dev_i])
       THEN /\ vol_size_dev' = vol_size_dev \div 2
            /\ vol_count_dev' = vol_count_dev * 2
            /\ sched_pc' = "calcVolumeSizePerDev"
       ELSE /\ sched_pc' = "emplace"
            /\ UNCHANGED <<vol_size_dev, vol_count_dev>>
    /\ UNCHANGED notSched
    /\ UNCHANGED <<geo, devices_, totalGlobalMem, vol_geo_, volume_height_,
                   volume_bytes_, volume_count_, volumes_per_device_,
                   offset_per_volume_, subproj_dims_, subprojs_,
                   offset_per_subproj_, dev_i, volume_map_>>

\* volume_count_ += vol_count_dev; volumes_per_device_.emplace(i, vol_count_dev); ++i
EmplaceVolumes ==
    /\ sched_pc = "emplace"
    /\ volume_count_' = volume_count_ + vol_count_dev
    /\ volumes_per_device_' = Emplace(volumes_per_device_, dev_i, vol_count_dev)
    /\ dev_i' = dev_i + 1
    /\ sched_pc' = "for_device"
    /\ UNCHANGED notSched
    /\ UNCHANGED <<geo, devices_, totalGlobalMem, vol_geo_, volume_height_,
                   volume_bytes_, offset_per_volume_, subproj_dims_, subprojs_,
                   offset_per_subproj_, vol_size_dev, vol_count_dev, volume_map_>>

\* faulty variant: the local index is off by one
SubvolumeOffset_OffByOne(i, c, count_dev, vol_offset) ==
    i * count_dev * vol_offset + (c + 1) * vol_offset

\* offset_per_volume_[i][c] = i * vol_count_dev * vol_offset + c * vol_offset
SubvolumeOffset(i, c, count_dev, vol_offset) ==
    i * count_dev * vol_offset + c * vol_offset

calculate_subvolume_offsets ==
    /\ sched_pc = "calculate_subvolume_offsets"
    /\ offset_per_volume_' =
          [i \in {d \in 0..(devices_ - 1) : d \in DOMAIN volumes_per_device_} |->
              [c \in 0..(volumes_per_device_[i] - 1) |->
                  SubvolumeOffset(i, c, volumes_per_device_[i],
                                  vol_geo_.dim_z \div volume_count_)]]
    /\ sched_pc' = "calculate_subprojection_borders"
    /\ UNCHANGED notSched
    /\ UNCHANGED <<geo, devices_, totalGlobalMem, vol_geo_, volume_height_,
                   volume_bytes_, volume_count_, volumes_per_device_,
                   subproj_dims_, subprojs_, offset_per_subproj_, dev_i,
                   vol_size_dev, vol_count_dev, volume_map_>>

\* faulty variant: the projected coordinate is not clamped to the detector
ClampProj_None(virt, top_proj_real, bottom_proj_real, isTop) == virt

\* clamp of a projected coordinate into the real detector band
ClampProj(virt, top_proj_real, bottom_proj_real, isTop) ==
    IF isTop
    THEN IF QLt(bottom_proj_real, virt) THEN bottom_proj_real
         ELSE IF QLt(virt, top_proj_real) THEN top_proj_real
         ELSE virt
    ELSE IF QLt(virt, top_proj_real) THEN top_proj_real
         ELSE IF QLt(bottom_proj_real, virt) THEN bottom_proj_real
         ELSE virt

\* (proj + (N_v * d_v) / 2 + delta_v) / d_v - 1/2
RowCoordinate(proj, N_v, d_v, delta_v) ==
    QSub(QDiv(QAdd(QAdd(proj, Q(N_v * d_v, 2)), QInt(delta_v)), QInt(d_v)), Q(1, 2))

\* if(start_row < 0.f) start_row = 0.f
ClampStartRow(start_row) == IF start_row < 0 THEN 0 ELSE start_row

\* if(bottom_row >= N_v) bottom_row = N_v - 1
ClampBottomRow(bottom_row, N_v) == IF bottom_row >= N_v THEN N_v - 1 ELSE bottom_row

\* one iteration of the loop of calculate_subprojection_borders: the pair
\* (start_row, bottom_row) of sub-volume n out of N
SubprojectionBorder(g, vg, height, N, n) ==
    LET d_v == g.det_pixel_size_vert
        delta_v == g.det_offset_vert * d_v
        N_v == g.det_pixels_column
        d_src == QInt(Abs(g.dist_src))
        sd == QInt(dist_sd_(g))
        r_max == QDiv(QMul(QInt(vg.dim_x), vg.voxel_size_x), QInt(2))
        half_h == QDiv(height, QInt(2))
        top == QAdd(QNeg(half_h), QMul(Q(n, N), height))
        bottom == QAdd(QNeg(half_h), QMul(Q(n + 1, N), height))
        top_proj_virt ==
            QDiv(QMul(top, sd),
                 QAdd(d_src, IF QLt(top, QInt(0)) THEN QNeg(r_max) ELSE r_max))
        bottom_proj_virt ==
            QDiv(QMul(bottom, sd),
                 QAdd(d_src, IF QLt(bottom, QInt(0)) THEN r_max ELSE QNeg(r_max)))
        top_proj_real ==
            QAdd(QSub(QSub(QInt(0), Q(N_v * d_v, 2)), QInt(delta_v)), Q(d_v, 2))
        bottom_proj_real == QSub(QAdd(top_proj_real, QInt(N_v * d_v)), QInt(d_v))
        top_proj == ClampProj(top_proj_virt, top_proj_real, bottom_proj_real, TRUE)
        bottom_proj == ClampProj(bottom_proj_virt, top_proj_real, bottom_proj_real, FALSE)
        start_row == QFloor(RowCoordinate(top_proj, N_v, d_v, delta_v))
        bottom_row == QCeil(RowCoordinate(bottom_proj, N_v, d_v, delta_v))
    IN  <<ClampStartRow(start_row), ClampBottomRow(bottom_row, N_v)>>

calculate_subprojection_borders ==
    /\ sched_pc = "calculate_subprojection_borders"
    /\ subproj_dims_' =
          [k \in 1..volume_count_ |->
              SubprojectionBorder(geo, vol_geo_, volume_height_, volume_count_, k - 1)]
    /\ sched_pc' = "distribute_subprojections"
    /\ UNCHANGED notSched
    /\ UNCHANGED <<geo, devices_, totalGlobalMem, vol_geo_, volume_height_,
                   volume_bytes_, volume_count_, volumes_per_device_,
                   offset_per_volume_, subprojs_, offset_per_subproj_, dev_i,
                   vol_size_dev, vol_count_dev, volume_map_>>

\* number of sub-projections handed out to the devices before device i
RECURSIVE SubprojsBegin(_)
SubprojsBegin(i) == IF i = 0 THEN 0 ELSE SubprojsBegin(i - 1) + get_volume_num(i - 1)

distribute_subprojections ==
    /\ sched_pc = "distribute_subprojections"
    /\ subprojs_' =
          [i \in 0..(devices_ - 1) |->
              SubSeq(subproj_dims_, SubprojsBegin(i) + 1,
                     SubprojsBegin(i) + get_volume_num(i))]
    /\ sched_pc' = "calculate_subprojection_offsets"
    /\ UNCHANGED notSched
    /\ UNCHANGED <<geo, devices_, totalGlobalMem, vol_geo_, volume_height_,
                   volume_bytes_, volume_count_, volumes_per_device_,
                   offset_per_volume_, subproj_dims_, offset_per_subproj_, dev_i,
                   vol_size_dev, vol_count_dev, volume_map_>>

calculate_subprojection_offsets ==
    /\ sched_pc = "calculate_subprojection_offsets"
    /\ offset_per_subproj_' =
          [i \in {d \in 0..(devices_ - 1) : d \in DOMAIN subprojs_} |->
              [c \in 0..(get_volume_num(i) - 1) |-> subprojs_[i][c + 1][1]]]
    /\ sched_pc' = "constructed"
    /\ UNCHANGED notSched
    /\ UNCHANGED <<geo, devices_, totalGlobalMem, vol_geo_, volume_height_,
                   volume_bytes_, volume_count_, volumes_per_device_,
                   offset_per_volume_, subproj_dims_, subprojs_, dev_i,
                   vol_size_dev, vol_count_dev, volume_map_>>

(***************************************************************************)
(* Feldkamp::create_volumes, one creation thread per device                *)
(***************************************************************************)
\* faulty variant: the share of the device is not divided among its sub-volumes
SubvolDevSize_Undivided(dim_z, devices, vol_on_device) == dim_z \div devices

\* subvol_dev_size = (dim_z / devices_) / vol_on_device
SubvolDevSize(dim_z, devices, vol_on_device) == (dim_z \div devices) \div vol_on_device

create_volumes(device) ==
    /\ sched_pc = "constructed"
    /\ device \notin DOMAIN volume_map_
    /\ volume_map_' =
          Emplace(volume_map_, device,
                  [i \in 1..volumes_per_device_[device] |->
                      [width |-> vol_geo_.dim_x, height |-> vol_geo_.dim_y,
                       depth |-> SubvolDevSize(vol_geo_.dim_z, devices_,
                                               volumes_per_device_[device])]])
    /\ UNCHANGED notSched
    /\ UNCHANGED <<geo, devices_, totalGlobalMem, sched_pc, vol_geo_, volume_height_,
                   volume_bytes_, volume_count_, volumes_per_device_,
                   offset_per_volume_, subproj_dims_, subprojs_,
                   offset_per_subproj_, dev_i, vol_size_dev, vol_count_dev>>

CreateVolumes == \E device \in 0..(devices_ - 1) : create_volumes(device)

\* the plan is complete: scheduler constructed and all sub-volumes allocated
PlanDone == sched_pc = "constructed" /\ DOMAIN volume_map_ = 0..(devices_ - 1)

\* auto subvol_counter = 0u, which no statement of the loop over the
\* sub-volumes of a device changes
subvol_counter(c) == 0

\* first_row = offset + subvol_counter * subvol_dev_size
FirstRow(offset, counter, subvol_dev_size) == offset + counter * subvol_dev_size

\* merge_volumes, the loop over volume_map_[i]: the cudaMemcpy3D of each
\* sub-volume, v.depth() slices to first_row of the output
DeviceCopies(i) ==
    LET vol_dev_size == vol_geo_.dim_z \div devices_
        offset == i * vol_dev_size
        vol_on_device == volumes_per_device_[i]
    IN  [c \in 1..Len(volume_map_[i]) |->
            [device |-> i, vol |-> c - 1,
             first_row |-> FirstRow(offset, subvol_counter(c),
                                    vol_dev_size \div vol_on_device),
             depth |-> volume_map_[i][c].depth]]

\* merge_volumes, the loop over the devices
RECURSIVE CopiesOfDevices(_)
CopiesOfDevices(n) ==
    IF n = 0 THEN << >> ELSE CopiesOfDevices(n - 1) \o DeviceCopies(n - 1)

\* Feldkamp::merge_volumes: an output of dim_z slices, one copy per sub-volume
\* of every device, results_.push(std::move(output))
merge_volumes ==
    /\ PlanDone
    /\ ~merge_output.pushed
    /\ merge_output' = [pushed |-> TRUE, copies |-> CopiesOfDevices(devices_)]
    /\ UNCHANGED schedVars
    /\ UNCHANGED <<stageVars, fdkVars, auxVars>>

SchedNext ==
    \/ merge_volumes
    \/ instance
    \/ SchedGeoStep
    \/ SchedHeightStep
    \/ SchedBytesStep
    \/ calculate_volumes_per_device
    \/ ForDevice
    \/ calcVolumeSizePerDev
    \/ EmplaceVolumes
    \/ calculate_subvolume_offsets
    \/ calculate_subprojection_borders
    \/ distribute_subprojections
    \/ calculate_subprojection_offsets
    \/ CreateVolumes

SchedSpec == SchedInit /\ [][SchedNext]_vars

\* the volume sizes the detector geometries produce, and one geometry for each
VolumeSizes == {bytes_per_volume(g) : g \in GeoSet}
GeoOfSize == {CHOOSE g \in GeoSet : bytes_per_volume(g) = b : b \in VolumeSizes}

\* the constructor on entry to calculate_volumes_per_device (line 125): the
\* volume geometry, height and bytes are computed, no device has been visited
HalvingInit ==
    \E g \in GeoOfSize : \E n \in 1..MaxDevices :
       \E mem \in [0..(n - 1) -> MemChoices(g)] :
          /\ NotSchedIdle
          /\ geo = g
          /\ devices_ = n
          /\ totalGlobalMem = mem
          /\ sched_pc = "calculate_volumes_per_device"
          /\ vol_geo_ = calculate_volume_geo(g)
          /\ volume_height_ = calculate_volume_height_mm(calculate_volume_geo(g))
          /\ volume_bytes_ = bytes_per_volume(g)
          /\ volume_count_ = 0
          /\ volumes_per_device_ = EmptyMap
          /\ offset_per_volume_ = EmptyMap
          /\ subproj_dims_ = << >>
          /\ subprojs_ = EmptyMap
          /\ offset_per_subproj_ = EmptyMap
          /\ dev_i = 0
          /\ vol_size_dev = 0
          /\ vol_count_dev = 0
          /\ volume_map_ = EmptyMap

HalvingNext ==
    \/ calculate_volumes_per_device
    \/ ForDevice
    \/ calcVolumeSizePerDev
    \/ EmplaceVolumes

\* calculate_volumes_per_device is sequential code: each of its steps is taken
HalvingSpec == HalvingInit /\ [][HalvingNext]_vars /\ WF_vars(HalvingNext)


(***************************************************************************)
(* Properties of the plan                                                  *)
(***************************************************************************)
RECURSIVE SumDepths(_)
SumDepths(vols) == IF vols = << >> THEN 0 ELSE Head(vols).depth + SumDepths(Tail(vols))

RECURSIVE SumOverDevices(_)
SumOverDevices(n) ==
    IF n = 0 THEN 0 ELSE SumOverDevices(n - 1) + SumDepths(volume_map_[n - 1])

\* the allocated sub-volumes, as (device, local index)
SubVolumeIds == {dc \in (DOMAIN volume_map_) \X (0..64) :
                    dc[2] < Len(volume_map_[dc[1]])}

\* the z-slab [z_offset, z_offset + depth) of a sub-volume
Slab(dc) ==
    {z \in 0..(2 * vol_geo_.dim_z + 64) :
        /\ z >= get_volume_offset(dc[1], dc[2])
        /\ z < get_volume_offset(dc[1], dc[2]) + volume_map_[dc[1]][dc[2] + 1].depth}

\* sum of chunks_per_device of the devices before d
RECURSIVE ChunksBefore(_)
ChunksBefore(d) == IF d = 0 THEN 0 ELSE ChunksBefore(d - 1) + volumes_per_device_[d - 1]

RECURSIVE IsPow2(_)
IsPow2(n) == n = 1 \/ (n > 1 /\ n % 2 = 0 /\ IsPow2(n \div 2))

RECURSIVE Log2(_)
Log2(n) == IF n <= 1 THEN 0 ELSE 1 + Log2(n \div 2)

\* the chunk size halved k times
RECURSIVE HalvedTimes(_, _)
HalvedTimes(size, k) == IF k = 0 THEN size ELSE HalvedTimes(size \div 2, k - 1)

OffsetsDone == sched_pc \in {"calculate_subprojection_borders",
                             "distribute_subprojections",
                             "calculate_subprojection_offsets", "constructed"}

\* C1: for every plan, the depths of all allocated sub-volumes sum to dim_z and
\* the slabs [z_offset, z_offset + depth) are pairwise disjoint and cover [0, dim_z)
C1_PartitionComplete ==
    PlanDone =>
        /\ SumOverDevices(devices_) = vol_geo_.dim_z
        /\ \A a \in SubVolumeIds : \A b \in SubVolumeIds :
              a # b => Slab(a) \cap Slab(b) = {}
        /\ UNION {Slab(a) : a \in SubVolumeIds} = 0..(vol_geo_.dim_z - 1)

\* C2: get_volume_offset(d, c) = n * (dim_z / N) with n the plan-order number
\* of the sub-volume, n = (chunks of the devices before d) + c
C2_OffsetInPlanOrder ==
    OffsetsDone =>
        \A d \in 0..(devices_ - 1) : \A c \in 0..(volumes_per_device_[d] - 1) :
            get_volume_offset(d, c) =
                (ChunksBefore(d) + c) * (vol_geo_.dim_z \div volume_count_)

\* chunks is the smallest power of two 2^k such that the initial chunk halved
\* k times is strictly smaller than the device memory
SmallestFittingPow2(chunks, chunk0, mem) ==
    /\ IsPow2(chunks)
    /\ HalvedTimes(chunk0, Log2(chunks)) < mem
    /\ \A j \in 0..(Log2(chunks) - 1) : HalvedTimes(chunk0, j) >= mem

\* C3: the chunk-halving loop terminates for every device, and the resulting
\* chunks_per_device[d] is the smallest power of two 2^k for which the chunk
\* size bytes_per_volume / n_devices, halved k times, is below the device memory
C3_HalvingTerminatesPow2 ==
    /\ (sched_pc = "calculate_volumes_per_device")
          ~> (sched_pc = "calculate_subvolume_offsets"
                /\ DOMAIN volumes_per_device_ = 0..(devices_ - 1))
    /\ [](\A d \in DOMAIN volumes_per_device_ :
             SmallestFittingPow2(volumes_per_device_[d],
                                 bytes_per_volume(geo) \div devices_,
                                 totalGlobalMem[d]))

C3_Witness ==
    /\ DOMAIN volumes_per_device_ = 0..(devices_ - 1)
    /\ \E d \in DOMAIN volumes_per_device_ : volumes_per_device_[d] >= 4
    /\ \E d \in DOMAIN volumes_per_device_ : volumes_per_device_[d] = 1

\* scenario S4: two devices, each with half the bytes of the full volume
S4 == devices_ = 2 /\ \A d \in 0..1 : totalGlobalMem[d] = bytes_per_volume(geo) \div 2

\* C4 as stated: S4 yields chunks_per_device = {1, 1}, dim_z_local = dim_z / 2
\* each and z-offsets {0, dim_z / 2}
C4_S4_AsStated ==
    (PlanDone /\ S4) =>
        /\ \A d \in 0..1 : volumes_per_device_[d] = 1
        /\ \A d \in 0..1 : \A i \in DOMAIN volume_map_[d] :
              volume_map_[d][i].depth = vol_geo_.dim_z \div 2
        /\ {get_volume_offset(dc[1], dc[2]) : dc \in SubVolumeIds}
              = {0, vol_geo_.dim_z \div 2}

\* C4 amended: S4 yields chunks_per_device = {2, 2} (a chunk equal to the device
\* memory is halved once more), four sub-volumes of depth (dim_z / 2) / 2 and
\* z-offsets n * (dim_z / 4), n = 0..3
C4_S4_Amended ==
    (PlanDone /\ S4) =>
        /\ \A d \in 0..1 : volumes_per_device_[d] = 2
        /\ \A d \in 0..1 : \A i \in DOMAIN volume_map_[d] :
              volume_map_[d][i].depth = (vol_geo_.dim_z \div 2) \div 2
        /\ \A d \in 0..1 : \A c \in 0..1 :
              get_volume_offset(d, c) = (2 * d + c) * (vol_geo_.dim_z \div 4)

C4_Witness == PlanDone /\ S4 /\ vol_geo_.dim_z >= 4

\* scenario S5: a single device with bytes_per_volume / 4 - 1 bytes
S5 == devices_ = 1 /\ totalGlobalMem[0] = (bytes_per_volume(geo) \div 4) - 1

\* band c + 1 starts where band c ends
ContiguousBands(d) ==
    \A c \in 0..(Len(volume_map_[d]) - 2) :
        get_volume_offset(d, c + 1) =
            get_volume_offset(d, c) + volume_map_[d][c + 1].depth

\* C5 as stated: S5 yields chunks_per_device[0] = 4 and four contiguous z-bands
C5_S5_AsStated ==
    (PlanDone /\ S5) =>
        /\ volumes_per_device_[0] = 4
        /\ Len(volume_map_[0]) = 4
        /\ ContiguousBands(0)

\* C5 amended: S5 (volume of at least 12 bytes) yields chunks_per_device[0] = 8
\* and eight z-bands of depth dim_z / 8, band c starting at c * (dim_z / 8), so
\* that each band starts where the previous one ends
C5_S5_Amended ==
    (PlanDone /\ S5 /\ bytes_per_volume(geo) >= 12) =>
        /\ volumes_per_device_[0] = 8
        /\ Len(volume_map_[0]) = 8
        /\ \A c \in 0..7 :
              /\ volume_map_[0][c + 1].depth = vol_geo_.dim_z \div 8
              /\ get_volume_offset(0, c) = c * (vol_geo_.dim_z \div 8)
        /\ ContiguousBands(0)

C5_Witness == PlanDone /\ S5 /\ bytes_per_volume(geo) >= 12 /\ vol_geo_.dim_z >= 8

\* C6: if one z-slice of the volume (the thinnest possible sub-volume) still
\* does not fit a device, the scheduler rejects the plan: it does not return one
C6_RejectsUnfittablePlan ==
    sched_pc = "constructed" =>
        ~(\E d \in 0..(devices_ - 1) : slice_bytes(geo) > totalGlobalMem[d])

\* C7: every sub-projection row band satisfies
\* 0 <= row_top(n) <= row_bottom(n) <= n_col - 1
C7_RowBandsOrdered ==
    \A k \in DOMAIN subproj_dims_ :
        /\ 0 <= subproj_dims_[k][1]
        /\ subproj_dims_[k][1] <= subproj_dims_[k][2]
        /\ subproj_dims_[k][2] <= geo.det_pixels_column - 1

C7_Witness ==
    /\ Len(subproj_dims_) >= 4
    /\ geo.det_offset_vert # 0
    /\ \E k \in DOMAIN subproj_dims_ : subproj_dims_[k][1] > 0
    /\ \E k \in DOMAIN subproj_dims_ :
          subproj_dims_[k][2] < geo.det_pixels_column - 1

(***************************************************************************)
(* Pipeline stages: weighting_stage::run, CUDAWeighting, CUDAFilter        *)
(***************************************************************************)
Stages == {"weighting_stage", "CUDAWeighting", "CUDAFilter"}

\* what a stage receives: up to MaxProjs valid projections, numbered in order
\* and each bound to one of nd devices, followed by the sentinel
InputStreams(nd) ==
    UNION {{[i \in 1..(n + 1) |->
                IF i <= n THEN Projection(i - 1, devs[i]) ELSE Sentinel] :
             devs \in [1..n -> 0..(nd - 1)]} : n \in 0..MaxProjs}

\* a stage is constructed and started; a weighting_stage serves one device.
\* Only CUDAFilter reads img.device(): the streams of the other two stages are
\* taken with every projection on device 0
StageInit ==
    /\ SchedIdle
    /\ AuxIdle
    /\ FdkIdle
    /\ \E k \in Stages : \E nd \in 1..MaxDevices :
       \E s \in InputStreams(IF k = "CUDAFilter" THEN nd ELSE 1) :
          /\ (k = "weighting_stage" => nd = 1)
          /\ stage = k
          /\ stage_devices_ = nd
          /\ input_ = s
          /\ run_pc = IF k = "weighting_stage" THEN "input" ELSE "process"
    /\ received_ = << >>
    /\ output_ = << >>
    /\ run_p = Sentinel
    /\ run_error = "none"
    /\ processor_threads_ = << >>

\* weighting_stage::run: auto p = input_(); if(!p.valid) break;
RunInput ==
    /\ stage = "weighting_stage"
    /\ run_pc = "input"
    /\ input_ # << >>
    /\ run_p' = Head(input_)
    /\ input_' = Tail(input_)
    /\ received_' = Append(received_, Head(input_))
    /\ run_pc' = IF Head(input_).valid THEN "weight" ELSE "sentinel"
    /\ UNCHANGED <<stage, stage_devices_, output_, run_error, processor_threads_>>
    /\ UNCHANGED notStage

\* weighting_stage::run: weight(p, ...); synchronize_stream(p.stream);
\* output_(std::move(p)); and back to the head of the loop
RunWeight ==
    /\ stage = "weighting_stage"
    /\ run_pc = "weight"
    /\ output_' = Append(output_, run_p)
    /\ run_pc' = "input"
    /\ UNCHANGED <<stage, stage_devices_, input_, received_, run_p, run_error,
                   processor_threads_>>
    /\ UNCHANGED notStage

\* the exceptions of the CUDA runtime that weighting_stage::run catches
GpuErrors == {"bad_alloc", "invalid_argument", "runtime_error"}

\* weighting_stage::run: the kernel launch or the stream synchronisation
\* throws; the catch clause logs the error and throws stage_runtime_error
RunCatch ==
    /\ stage = "weighting_stage"
    /\ run_pc = "weight"
    /\ \E e \in GpuErrors : run_error' = e
    /\ run_pc' = "failed"
    /\ UNCHANGED <<stage, stage_devices_, input_, received_, output_, run_p,
                   processor_threads_>>
    /\ UNCHANGED notStage

\* weighting_stage::run: after the loop, output_(output_type{})
RunSentinel ==
    /\ stage = "weighting_stage"
    /\ run_pc = "sentinel"
    /\ output_' = Append(output_, Sentinel)
    /\ run_pc' = "done"
    /\ UNCHANGED <<stage, stage_devices_, input_, received_, run_p, run_error,
                   processor_threads_>>
    /\ UNCHANGED notStage


\* a std::thread running processor(img, device), and whether it has returned
ProcessorThread(img, device) == [img |-> img, device |-> device, done |-> FALSE]

\* CUDAWeighting::process: one processor thread for every device
CUDAWeighting_threads(img, nd) ==
    [i \in 1..nd |-> ProcessorThread(img, i - 1)]

\* CUDAWeighting::process: the sentinel enters finish(), a valid projection
\* starts its processor threads
CUDAWeighting_process ==
    /\ stage = "CUDAWeighting"
    /\ run_pc = "process"
    /\ input_ # << >>
    /\ input_' = Tail(input_)
    /\ received_' = Append(received_, Head(input_))
    /\ IF ~Head(input_).valid
       THEN /\ run_pc' = "finish"
            /\ UNCHANGED processor_threads_
       ELSE /\ processor_threads_' =
                  processor_threads_ \o CUDAWeighting_threads(Head(input_), stage_devices_)
            /\ UNCHANGED run_pc
    /\ UNCHANGED <<stage, stage_devices_, output_, run_p, run_error>>
    /\ UNCHANGED notStage

\* CUDAWeighting::processor: result.setDevice(device); result = img; the kernel
\* runs on result and results_.push(std::move(result))
CUDAWeighting_processor ==
    /\ stage = "CUDAWeighting"
    /\ \E t \in DOMAIN processor_threads_ :
          /\ ~processor_threads_[t].done
          /\ output_' = Append(output_, processor_threads_[t].img)
          /\ processor_threads_' = [processor_threads_ EXCEPT ![t].done = TRUE]
    /\ UNCHANGED <<stage, stage_devices_, input_, received_, run_pc, run_p, run_error>>
    /\ UNCHANGED notStage

\* faulty variant: finish() does not wait for the processor threads
Joined_NoWait(threads) == TRUE

\* for(auto&& t : processor_threads_) t.join(); returns when all have returned
Joined(threads) == \A t \in DOMAIN threads : threads[t].done

\* CUDAWeighting::finish: join the threads, then results_.push(output_type())
CUDAWeighting_finish ==
    /\ stage = "CUDAWeighting"
    /\ run_pc = "finish"
    /\ Joined(processor_threads_)
    /\ output_' = Append(output_, Sentinel)
    /\ run_pc' = "done"
    /\ UNCHANGED <<stage, stage_devices_, input_, received_, run_p, run_error,
                   processor_threads_>>
    /\ UNCHANGED notStage

\* CUDAFilter::process: a processor thread on device i only if img.device() == i
CUDAFilter_threads(img, nd) ==
    SelectSeq([i \in 1..nd |-> ProcessorThread(img, i - 1)],
              LAMBDA t : img.device = t.device)

\* CUDAFilter::process: the sentinel enters finish(), a valid projection starts
\* the processor thread of its device
CUDAFilter_process ==
    /\ stage = "CUDAFilter"
    /\ run_pc = "process"
    /\ input_ # << >>
    /\ input_' = Tail(input_)
    /\ received_' = Append(received_, Head(input_))
    /\ IF ~Head(input_).valid
       THEN /\ run_pc' = "finish"
            /\ UNCHANGED processor_threads_
       ELSE /\ processor_threads_' =
                  processor_threads_ \o CUDAFilter_threads(Head(input_), stage_devices_)
            /\ UNCHANGED run_pc
    /\ UNCHANGED <<stage, stage_devices_, output_, run_p, run_error>>
    /\ UNCHANGED notStage

\* CUDAFilter::processor: filters img in place and results_.push(std::move(img))
CUDAFilter_processor ==
    /\ stage = "CUDAFilter"
    /\ \E t \in DOMAIN processor_threads_ :
          /\ ~processor_threads_[t].done
          /\ output_' = Append(output_, processor_threads_[t].img)
          /\ processor_threads_' = [processor_threads_ EXCEPT ![t].done = TRUE]
    /\ UNCHANGED <<stage, stage_devices_, input_, received_, run_pc, run_p, run_error>>
    /\ UNCHANGED notStage

\* CUDAFilter::finish: join the threads, then results_.push(output_type())
CUDAFilter_finish ==
    /\ stage = "CUDAFilter"
    /\ run_pc = "finish"
    /\ Joined(processor_threads_)
    /\ output_' = Append(output_, Sentinel)
    /\ run_pc' = "done"
    /\ UNCHANGED <<stage, stage_devices_, input_, received_, run_p, run_error,
                   processor_threads_>>
    /\ UNCHANGED notStage

StageNext ==
    \/ RunInput
    \/ RunWeight
    \/ RunCatch
    \/ RunSentinel
    \/ CUDAWeighting_process
    \/ CUDAWeighting_processor
    \/ CUDAWeighting_finish
    \/ CUDAFilter_process
    \/ CUDAFilter_processor
    \/ CUDAFilter_finish

\* the threads of a stage run: a step that stays possible is taken
StageSpec == StageInit /\ [][StageNext]_vars /\ WF_vars(StageNext)

(***************************************************************************)
(* Properties of the stages                                                *)
(***************************************************************************)
\* the number of sentinels in a queue
SentinelCount(q) == Cardinality({i \in DOMAIN q : ~q[i].valid})

\* the indices of the valid projections in a queue
ValidIndices(q) == {q[i].index : i \in {j \in DOMAIN q : q[j].valid}}

\* C8: each stage emits the end-of-stream sentinel exactly once, and only
\* after every valid projection it received before the sentinel has been
\* forwarded: the output never holds two sentinels, nothing follows the
\* sentinel, every projection received is in the output when the sentinel is,
\* and a stage that receives the sentinel does emit it
C8_SentinelOnceAfterAll ==
    /\ [](/\ SentinelCount(output_) <= 1
          /\ \A i \in DOMAIN output_ : ~output_[i].valid => i = Len(output_)
          /\ SentinelCount(output_) = 1 =>
                ValidIndices(received_) \subseteq ValidIndices(output_)
          /\ run_pc = "done" => SentinelCount(output_) = 1)
    /\ (SentinelCount(received_) = 1) ~> (SentinelCount(output_) = 1)

C8_Witness ==
    /\ stage = "CUDAWeighting"
    /\ stage_devices_ = 2
    /\ run_pc = "done"
    /\ Len(output_) = 5
    /\ ~output_[5].valid

\* C9: when weighting_stage::run fails on a GPU error, the sentinel has been
\* pushed downstream
C9_SentinelBeforeFailing ==
    run_pc = "failed" => SentinelCount(output_) >= 1


(***************************************************************************)
(* Back-projection stage: Feldkamp::process, Feldkamp::processor,          *)
(* Feldkamp::set_input_num and the angle tables                            *)
(***************************************************************************)
FdkDevices == 0..(fdk_devices_ - 1)

\* the value of angle_tabs_created_ after a construction that parsed no angle
\* file (the member's declaration is in Feldkamp.h)
angle_tabs_created_initial == FALSE

\* entries of the angle tables: std::sin / std::cos of an angle given in
\* degrees, and a value-initialised float of resize()
SinOf(deg) == [fn |-> "sin", deg |-> deg]
CosOf(deg) == [fn |-> "cos", deg |-> deg]
ZeroFloat == [fn |-> "zero", deg |-> 0]

\* std::vector::resize(n): keeps the first n entries, appends value-initialised ones
Resize(tab, n) == [i \in 1..n |-> IF i <= Len(tab) THEN tab[i] ELSE ZeroFloat]

\* tab[index] as a kernel argument; a read past the end yields no table entry
TabAt(tab, index) ==
    IF index + 1 \in DOMAIN tab THEN tab[index + 1] ELSE [fn |-> "none", deg |-> 0]

\* the angles an angle file can hold, in degrees, one per line
AngleValues == {5, 45}

\* the number of characters of an angle in the file
DigitsOf(deg) == IF deg < 10 THEN 1 ELSE 2

\* the constructor's argument angles: "" (no file), the name of a file that
\* cannot be opened, or the name of a file of up to MaxAngles lines, with or
\* without a newline after its last line
NoAngleFile == [name |-> "", openable |-> FALSE, tokens |-> << >>, eol |-> FALSE]
MissingAngleFile ==
    [name |-> "angles", openable |-> FALSE, tokens |-> << >>, eol |-> FALSE]
AngleFiles ==
    {[name |-> "angles", openable |-> TRUE, tokens |-> t, eol |-> e] :
        t \in UNION {[1..n -> AngleValues] : n \in 0..MaxAngles}, e \in BOOLEAN}
AnglesArgs == {NoAngleFile, MissingAngleFile} \cup AngleFiles

\* the rotation steps of the geometries, in degrees
RotAngles == {2}

\* what the scheduler hands to a Feldkamp on nd devices: one sub-volume on
\* every device, or d + 2 sub-volumes on device d; and the volume geometry
VolumesPerDevice(nd) == {[d \in 0..(nd - 1) |-> 1], [d \in 0..(nd - 1) |-> d + 2]}
VolumeGeometry == [dim_x |-> 2, dim_y |-> 3, dim_z |-> 12]

\* ddrf::volume of the given dimensions, and whether it holds data
output_type(w, h, d) == [valid |-> TRUE, width |-> w, height |-> h, depth |-> d]

\* the Feldkamp constructor is entered (scheduler_, geo_ and the counters are
\* initialised, no table entry); its device workers start when it returns and
\* the source then announces num_arg projections
FdkInit ==
    /\ SchedIdle
    /\ AuxIdle
    /\ StageIdle
    /\ \E nd \in 1..MaxDevices : \E s \in InputStreams(nd) :
          /\ fdk_devices_ = nd
          /\ fdk_input = s
          /\ num_arg = Len(s) - 1
          /\ map_imgs_ = [d \in 0..(nd - 1) |-> << >>]
          /\ proc_pc = [d \in 0..(nd - 1) |-> "take"]
          /\ proc_img = [d \in 0..(nd - 1) |-> Sentinel]
          /\ fill_i = [d \in 0..(nd - 1) |-> 0]
          /\ fill_angle = [d \in 0..(nd - 1) |-> 0]
          /\ \E vpd \in VolumesPerDevice(nd) :
                fdk_scheduler_ = [volumes_per_device |-> vpd, vol_geo_ |-> VolumeGeometry]
          /\ fdk_volume_map_ = [d \in 0..(nd - 1) |-> << >>]
          /\ kernel_log = [d \in 0..(nd - 1) |-> << >>]
    /\ wait_values = << >>
    /\ angles \in AnglesArgs
    /\ rot_angle \in RotAngles
    /\ ctor_pc = "parse_angles"
    /\ file_tok = 0
    /\ file_good = FALSE
    /\ process_pc = "process"
    /\ set_pc = "idle"
    /\ input_num_ = 0
    /\ input_num_set_ = FALSE
    /\ angle_tabs_created_ = angle_tabs_created_initial
    /\ angle_flag_ = "idle"
    /\ sin_tab_ = << >>
    /\ cos_tab_ = << >>
    /\ constructions = 0
    /\ launched = {}
    /\ fdk_results_ = << >>
    /\ done_ = FALSE

\* faulty variant: parse_angles goes on without looking at the stream
is_open_Unchecked == TRUE

\* file.is_open() of the stream parse_angles constructs from the file name
is_open == angles.openable

\* Feldkamp::create_volumes(device): the sub-volumes of the device, allocated
\* and zeroed by init_volume
create_volumes_of(device) ==
    LET vol_dev_size == fdk_scheduler_.vol_geo_.dim_z \div fdk_devices_
        vol_on_device == fdk_scheduler_.volumes_per_device[device]
    IN  [i \in 1..vol_on_device |->
            [width |-> fdk_scheduler_.vol_geo_.dim_x, height |-> fdk_scheduler_.vol_geo_.dim_y,
             depth |-> (vol_dev_size \div vol_on_device), zeroed |-> TRUE]]

\* the end of the constructor: a create_volumes thread for every device, all
\* joined before the constructor returns
creation_threads == [d \in FdkDevices |-> create_volumes_of(d)]

\* the Feldkamp constructor: if(!angles.empty()) parse_angles(angles), which
\* returns with a warning if the file is not open and else reads the first
\* line (which fails on a file without any character), rewinds and enters
\* its loop
Feldkamp_ctor ==
    /\ ctor_pc = "parse_angles"
    /\ IF angles.name = "" \/ ~is_open
       THEN /\ ctor_pc' = "constructed"
            /\ fdk_volume_map_' = creation_threads
            /\ UNCHANGED <<file_tok, file_good>>
       ELSE /\ ctor_pc' = "loop"
            /\ file_tok' = 0
            /\ file_good' = (angles.tokens # << >> \/ angles.eol)
            /\ UNCHANGED fdk_volume_map_
    /\ UNCHANGED <<fdk_devices_, fdk_scheduler_, kernel_log, wait_values,
                   fdk_input, process_pc, map_imgs_, proc_pc, proc_img,
                   fill_i, num_arg, set_pc, input_num_, input_num_set_,
                   angle_tabs_created_, angle_flag_, sin_tab_, cos_tab_, constructions,
                   launched, fdk_results_, done_, angles, rot_angle, fill_angle>>
    /\ UNCHANGED notFdk

\* the offset of the read position after k angles have been extracted: their
\* characters and the newlines between them
RECURSIVE FilePos(_, _)
FilePos(f, k) ==
    IF k = 0 THEN 0
    ELSE FilePos(f, k - 1) + DigitsOf(f.tokens[k]) + (IF k > 1 THEN 1 ELSE 0)

\* file.tellg(): the read position, or -1 once the stream is not good
tellg == IF file_good THEN FilePos(angles, file_tok) ELSE -1

\* parse_angles: the test of the while loop and one iteration (angle = 0.f;
\* file >> angle; both emplace_back), or the end of the function; a vector
\* that cannot grow any more throws std::bad_alloc
parse_angles_loop ==
    /\ ctor_pc = "loop"
    /\ IF tellg # ios_base_end
       THEN IF Len(sin_tab_) >= MaxTab
            THEN /\ ctor_pc' = "bad_alloc"
                 /\ UNCHANGED <<file_tok, file_good, sin_tab_, cos_tab_,
                                angle_tabs_created_, fdk_volume_map_>>
            ELSE LET extracted == file_good /\ file_tok < Len(angles.tokens)
                     angle == IF extracted THEN angles.tokens[file_tok + 1] ELSE 0
                     at_end == file_tok + 1 = Len(angles.tokens) /\ ~angles.eol
                 IN  /\ sin_tab_' = Append(sin_tab_, SinOf(angle))
                     /\ cos_tab_' = Append(cos_tab_, CosOf(angle))
                     /\ file_tok' = IF extracted THEN file_tok + 1 ELSE file_tok
                     /\ file_good' = (extracted /\ ~at_end)
                     /\ UNCHANGED <<ctor_pc, angle_tabs_created_, fdk_volume_map_>>
       ELSE /\ angle_tabs_created_' = TRUE
            /\ ctor_pc' = "constructed"
            /\ fdk_volume_map_' = creation_threads
            /\ UNCHANGED <<file_tok, file_good, sin_tab_, cos_tab_>>
    /\ UNCHANGED <<fdk_devices_, fdk_scheduler_, kernel_log, wait_values,
                   fdk_input, process_pc, map_imgs_, proc_pc, proc_img,
                   fill_i, num_arg, set_pc, input_num_, input_num_set_, angle_flag_,
                   constructions, launched, fdk_results_, done_, angles, rot_angle,
                   fill_angle>>
    /\ UNCHANGED notFdk

\* Feldkamp::set_input_num: input_num_ = num
set_input_num ==
    /\ set_pc = "idle"
    /\ ctor_pc = "constructed"
    /\ input_num_' = num_arg
    /\ set_pc' = "written"
    /\ UNCHANGED <<fdk_devices_, fdk_scheduler_, fdk_volume_map_, kernel_log, wait_values,
                   fdk_input, process_pc, map_imgs_, proc_pc, proc_img,
                   fill_i, num_arg, input_num_set_, angle_tabs_created_, angle_flag_,
                   sin_tab_, cos_tab_, constructions, launched, fdk_results_, done_>>
    /\ UNCHANGED ctorVars
    /\ UNCHANGED notFdk

\* Feldkamp::set_input_num: input_num_set_ = true
set_input_num_set ==
    /\ set_pc = "written"
    /\ input_num_set_' = TRUE
    /\ set_pc' = "done"
    /\ UNCHANGED <<fdk_devices_, fdk_scheduler_, fdk_volume_map_, kernel_log, wait_values,
                   fdk_input, process_pc, map_imgs_, proc_pc, proc_img,
                   fill_i, num_arg, input_num_, angle_tabs_created_, angle_flag_,
                   sin_tab_, cos_tab_, constructions, launched, fdk_results_, done_>>
    /\ UNCHANGED ctorVars
    /\ UNCHANGED notFdk

\* Feldkamp::process: a valid projection goes to the queue of its device; the
\* sentinel is pushed to the queue of every device, and the joins begin
Feldkamp_process ==
    /\ process_pc = "process"
    /\ ctor_pc = "constructed"
    /\ fdk_input # << >>
    /\ fdk_input' = Tail(fdk_input)
    /\ IF Head(fdk_input).valid
       THEN /\ map_imgs_' = [map_imgs_ EXCEPT ![Head(fdk_input).device] =
                                Append(@, Head(fdk_input))]
            /\ UNCHANGED process_pc
       ELSE /\ map_imgs_' = [d \in FdkDevices |-> Append(map_imgs_[d], Sentinel)]
            /\ process_pc' = "join"
    /\ UNCHANGED <<fdk_devices_, fdk_scheduler_, fdk_volume_map_, kernel_log, wait_values,
                   proc_pc, proc_img, fill_i, num_arg, set_pc,
                   input_num_, input_num_set_, angle_tabs_created_, angle_flag_,
                   sin_tab_, cos_tab_, constructions, launched, fdk_results_, done_>>
    /\ UNCHANGED ctorVars
    /\ UNCHANGED notFdk

\* faulty variant: process does not wait for the workers
processor_threads_joined_NoWait == TRUE

\* processor_threads_[i].join() has returned for every device: every worker
\* has left its loop
processor_threads_joined == \A d \in FdkDevices : proc_pc[d] = "terminated"

\* Feldkamp::process on the sentinel: for(i < devices_) processor_threads_[i].join()
Feldkamp_join ==
    /\ process_pc = "join"
    /\ processor_threads_joined
    /\ process_pc' = "merge_volumes"
    /\ UNCHANGED <<fdk_devices_, fdk_scheduler_, fdk_volume_map_, kernel_log, wait_values,
                   fdk_input, map_imgs_, proc_pc, proc_img, fill_i, num_arg, set_pc,
                   input_num_, input_num_set_, angle_tabs_created_, angle_flag_,
                   sin_tab_, cos_tab_, constructions, launched, fdk_results_, done_>>
    /\ UNCHANGED ctorVars
    /\ UNCHANGED notFdk

\* merge_volumes(): output_type{vol_geo_.dim_x, vol_geo_.dim_y, vol_geo_.dim_z},
\* the copies, results_.push(std::move(output))
Feldkamp_merge_volumes ==
    /\ process_pc = "merge_volumes"
    /\ fdk_results_' = Append(fdk_results_,
                              output_type(fdk_scheduler_.vol_geo_.dim_x,
                                          fdk_scheduler_.vol_geo_.dim_y,
                                          fdk_scheduler_.vol_geo_.dim_z))
    /\ process_pc' = "push"
    /\ UNCHANGED <<fdk_devices_, fdk_scheduler_, fdk_volume_map_, kernel_log, wait_values,
                   fdk_input, map_imgs_, proc_pc, proc_img, fill_i, num_arg, set_pc,
                   input_num_, input_num_set_, angle_tabs_created_, angle_flag_,
                   sin_tab_, cos_tab_, constructions, launched, done_>>
    /\ UNCHANGED ctorVars
    /\ UNCHANGED notFdk

\* results_.push(output_type())
Feldkamp_push ==
    /\ process_pc = "push"
    /\ fdk_results_' = Append(fdk_results_, Sentinel)
    /\ process_pc' = "set_done"
    /\ UNCHANGED <<fdk_devices_, fdk_scheduler_, fdk_volume_map_, kernel_log, wait_values,
                   fdk_input, map_imgs_, proc_pc, proc_img, fill_i, num_arg, set_pc,
                   input_num_, input_num_set_, angle_tabs_created_, angle_flag_,
                   sin_tab_, cos_tab_, constructions, launched, done_>>
    /\ UNCHANGED ctorVars
    /\ UNCHANGED notFdk

\* done_ = true
Feldkamp_done ==
    /\ process_pc = "set_done"
    /\ done_' = TRUE
    /\ process_pc' = "done"
    /\ UNCHANGED <<fdk_devices_, fdk_scheduler_, fdk_volume_map_, kernel_log, wait_values,
                   fdk_input, map_imgs_, proc_pc, proc_img, fill_i, num_arg, set_pc,
                   input_num_, input_num_set_, angle_tabs_created_, angle_flag_,
                   sin_tab_, cos_tab_, constructions, launched, fdk_results_>>
    /\ UNCHANGED ctorVars
    /\ UNCHANGED notFdk

\* the value of done_ that while(!done_) reads in wait: the value last
\* written (the member's declaration is in Feldkamp.h)
DoneRead == done_

\* Feldkamp::wait, called by the sink until it is handed an invalid volume:
\* while(!done_) yield; return results_.take()
Feldkamp_wait ==
    /\ ctor_pc = "constructed"
    /\ IF wait_values = << >> THEN TRUE ELSE wait_values[Len(wait_values)].valid
    /\ DoneRead
    /\ fdk_results_ # << >>
    /\ wait_values' = Append(wait_values, Head(fdk_results_))
    /\ fdk_results_' = Tail(fdk_results_)
    /\ UNCHANGED <<fdk_devices_, fdk_scheduler_, fdk_volume_map_, kernel_log,
                   fdk_input, process_pc, map_imgs_, proc_pc, proc_img, fill_i, num_arg,
                   set_pc, input_num_, input_num_set_, angle_tabs_created_, angle_flag_,
                   sin_tab_, cos_tab_, constructions, launched, done_>>
    /\ UNCHANGED ctorVars
    /\ UNCHANGED notFdk


\* Feldkamp::processor: img = map_imgs_[device].take(); if(!img.valid()) break
processor_take ==
    /\ \E d \in FdkDevices :
          /\ proc_pc[d] = "take"
          /\ map_imgs_[d] # << >>
          /\ proc_img' = [proc_img EXCEPT ![d] = Head(map_imgs_[d])]
          /\ map_imgs_' = [map_imgs_ EXCEPT ![d] = Tail(@)]
          /\ proc_pc' = [proc_pc EXCEPT ![d] =
                            IF Head(map_imgs_[d]).valid THEN "wait" ELSE "terminated"]
    /\ UNCHANGED <<fdk_devices_, fdk_scheduler_, fdk_volume_map_, kernel_log, wait_values,
                   fdk_input, process_pc, fill_i, num_arg, set_pc,
                   input_num_, input_num_set_, angle_tabs_created_, angle_flag_,
                   sin_tab_, cos_tab_, constructions, launched, fdk_results_, done_>>
    /\ UNCHANGED ctorVars
    /\ UNCHANGED notFdk

\* Feldkamp::processor: while(!input_num_set_) yield; left once the flag is read set
\* faulty variant: the worker does not wait for the flag
InputNumSet_Unwaited == TRUE

\* faulty variant: the worker never sees the flag set
InputNumSet_Stale == FALSE

\* the worker's read of input_num_set_ in while(!input_num_set_): the value
\* last written (the member's declaration is in Feldkamp.h)
InputNumSet == input_num_set_

processor_wait ==
    /\ \E d \in FdkDevices :
          /\ proc_pc[d] = "wait"
          /\ InputNumSet
          /\ proc_pc' = [proc_pc EXCEPT ![d] = "check"]
    /\ UNCHANGED <<fdk_devices_, fdk_scheduler_, fdk_volume_map_, kernel_log, wait_values,
                   fdk_input, process_pc, map_imgs_, proc_img, fill_i,
                   num_arg, set_pc, input_num_, input_num_set_, angle_tabs_created_,
                   angle_flag_, sin_tab_, cos_tab_, constructions, launched,
                   fdk_results_, done_>>
    /\ UNCHANGED ctorVars
    /\ UNCHANGED notFdk

\* Feldkamp::processor: if(!angle_tabs_created_) std::call_once(...)
processor_check ==
    /\ \E d \in FdkDevices :
          /\ proc_pc[d] = "check"
          /\ proc_pc' = [proc_pc EXCEPT ![d] =
                            IF ~angle_tabs_created_ THEN "call_once" ELSE "launch"]
    /\ UNCHANGED <<fdk_devices_, fdk_scheduler_, fdk_volume_map_, kernel_log, wait_values,
                   fdk_input, process_pc, map_imgs_, proc_img, fill_i,
                   num_arg, set_pc, input_num_, input_num_set_, angle_tabs_created_,
                   angle_flag_, sin_tab_, cos_tab_, constructions, launched,
                   fdk_results_, done_>>
    /\ UNCHANGED ctorVars
    /\ UNCHANGED notFdk

\* faulty variant: every caller that finds the call unfinished runs the function
CallOnceActive_Unguarded(flag) == flag # "done"

\* std::call_once: the caller that finds the flag untouched runs the function
CallOnceActive(flag) == flag = "idle"

\* std::call_once(angle_flag_, ...): the active caller enters the lambda, a
\* caller that finds the call completed returns, any other caller blocks
processor_call_once ==
    /\ \E d \in FdkDevices :
          /\ proc_pc[d] = "call_once"
          /\ \/ /\ CallOnceActive(angle_flag_)
                /\ angle_flag_' = "running"
                /\ constructions' = constructions + 1
                /\ proc_pc' = [proc_pc EXCEPT ![d] = "resize"]
             \/ /\ angle_flag_ = "done"
                /\ proc_pc' = [proc_pc EXCEPT ![d] = "launch"]
                /\ UNCHANGED <<angle_flag_, constructions>>
    /\ UNCHANGED <<fdk_devices_, fdk_scheduler_, fdk_volume_map_, kernel_log, wait_values,
                   fdk_input, process_pc, map_imgs_, proc_img, fill_i,
                   num_arg, set_pc, input_num_, input_num_set_, angle_tabs_created_,
                   sin_tab_, cos_tab_, launched, fdk_results_, done_>>
    /\ UNCHANGED ctorVars
    /\ UNCHANGED notFdk

\* the lambda: sin_tab_.resize(input_num_); cos_tab_.resize(input_num_);
\* angle = 0.f; i = 0u
lambda_resize ==
    /\ \E d \in FdkDevices :
          /\ proc_pc[d] = "resize"
          /\ sin_tab_' = Resize(sin_tab_, input_num_)
          /\ cos_tab_' = Resize(cos_tab_, input_num_)
          /\ fill_i' = [fill_i EXCEPT ![d] = 0]
          /\ fill_angle' = [fill_angle EXCEPT ![d] = 0]
          /\ proc_pc' = [proc_pc EXCEPT ![d] = "fill"]
    /\ UNCHANGED <<fdk_devices_, fdk_scheduler_, fdk_volume_map_, kernel_log, wait_values,
                   fdk_input, process_pc, map_imgs_, proc_img, num_arg,
                   set_pc, input_num_, input_num_set_, angle_tabs_created_,
                   angle_flag_, constructions, launched, fdk_results_, done_>>
    /\ UNCHANGED parseVars
    /\ UNCHANGED notFdk

\* the lambda: one iteration of the loop over i < input_num_ (sin_tab_[i] and
\* cos_tab_[i] of angle; ++i, angle += angle_step), then angle_tabs_created_ = true
lambda_fill ==
    /\ \E d \in FdkDevices :
          /\ proc_pc[d] = "fill"
          /\ IF fill_i[d] < input_num_
             THEN /\ sin_tab_' = [sin_tab_ EXCEPT ![fill_i[d] + 1] = SinOf(fill_angle[d])]
                  /\ cos_tab_' = [cos_tab_ EXCEPT ![fill_i[d] + 1] = CosOf(fill_angle[d])]
                  /\ fill_i' = [fill_i EXCEPT ![d] = @ + 1]
                  /\ fill_angle' = [fill_angle EXCEPT ![d] = @ + rot_angle]
                  /\ UNCHANGED <<angle_tabs_created_, proc_pc>>
             ELSE /\ angle_tabs_created_' = TRUE
                  /\ proc_pc' = [proc_pc EXCEPT ![d] = "return"]
                  /\ UNCHANGED <<sin_tab_, cos_tab_, fill_i, fill_angle>>
    /\ UNCHANGED <<fdk_devices_, fdk_scheduler_, fdk_volume_map_, kernel_log, wait_values,
                   fdk_input, process_pc, map_imgs_, proc_img, num_arg,
                   set_pc, input_num_, input_num_set_, angle_flag_, constructions,
                   launched, fdk_results_, done_>>
    /\ UNCHANGED parseVars
    /\ UNCHANGED notFdk

\* std::call_once returns to its active caller: the flag is set
call_once_return ==
    /\ \E d \in FdkDevices :
          /\ proc_pc[d] = "return"
          /\ angle_flag_' = "done"
          /\ proc_pc' = [proc_pc EXCEPT ![d] = "launch"]
    /\ UNCHANGED <<fdk_devices_, fdk_scheduler_, fdk_volume_map_, kernel_log, wait_values,
                   fdk_input, process_pc, map_imgs_, proc_img, fill_i,
                   num_arg, set_pc, input_num_, input_num_set_, angle_tabs_created_,
                   sin_tab_, cos_tab_, constructions, launched, fdk_results_, done_>>
    /\ UNCHANGED ctorVars
    /\ UNCHANGED notFdk

\* for(auto& v : volumes) launch(..., backproject, v.data(), ..., img.data(),
\* ..., sin_tab_[img.index()], cos_tab_[img.index()], ...)
Launches(volumes, img) ==
    [v \in DOMAIN volumes |->
        [volume |-> v, zeroed |-> volumes[v].zeroed, index |-> img.index, device |-> img.device,
         sin |-> TabAt(sin_tab_, img.index), cos |-> TabAt(cos_tab_, img.index)]]

\* Feldkamp::processor: the backproject kernel for the sub-volumes of the
\* device, with sin_tab_[img.index()] and cos_tab_[img.index()]
processor_launch ==
    /\ \E d \in FdkDevices :
          /\ proc_pc[d] = "launch"
          /\ launched' = launched \cup
                {[device |-> d, index |-> proc_img[d].index,
                  sin |-> TabAt(sin_tab_, proc_img[d].index),
                  cos |-> TabAt(cos_tab_, proc_img[d].index)]}
          /\ kernel_log' = [kernel_log EXCEPT ![d] =
                               @ \o Launches(fdk_volume_map_[d], proc_img[d])]
          /\ proc_pc' = [proc_pc EXCEPT ![d] = "take"]
    /\ UNCHANGED <<fdk_devices_, fdk_scheduler_, fdk_volume_map_, wait_values,
                   fdk_input, process_pc, map_imgs_, proc_img, fill_i,
                   num_arg, set_pc, input_num_, input_num_set_, angle_tabs_created_,
                   angle_flag_, sin_tab_, cos_tab_, constructions, fdk_results_, done_>>
    /\ UNCHANGED ctorVars
    /\ UNCHANGED notFdk

FdkNext ==
    \/ Feldkamp_ctor
    \/ parse_angles_loop
    \/ set_input_num
    \/ set_input_num_set
    \/ Feldkamp_process
    \/ Feldkamp_join
    \/ Feldkamp_merge_volumes
    \/ Feldkamp_push
    \/ Feldkamp_done
    \/ Feldkamp_wait
    \/ processor_take
    \/ processor_wait
    \/ processor_check
    \/ processor_call_once
    \/ lambda_resize
    \/ lambda_fill
    \/ call_once_return
    \/ processor_launch

FdkSpec == FdkInit /\ [][FdkNext]_vars

(***************************************************************************)
(* Properties of the angle tables                                          *)
(***************************************************************************)
\* the uniform-step tables of n entries: entry i for the angle i * rot_angle
UniformSinTab(n) == [i \in 1..n |-> SinOf((i - 1) * rot_angle)]
UniformCosTab(n) == [i \in 1..n |-> CosOf((i - 1) * rot_angle)]

\* the tables are built by uniform step: parse_angles has not filled them
UniformStep == angles.name = "" \/ ~angles.openable

\* C10: across all device workers the uniform-step angle tables are built
\* exactly once, and a worker about to launch a kernel finds both tables fully
\* built, with no worker inside the building lambda, in every interleaving
C10_AngleTablesOnce ==
    /\ constructions <= 1
    /\ UniformStep =>
          /\ \A d \in FdkDevices :
                proc_pc[d] = "launch" =>
                   /\ constructions = 1
                   /\ sin_tab_ = UniformSinTab(input_num_)
                   /\ cos_tab_ = UniformCosTab(input_num_)
                   /\ \A e \in FdkDevices : proc_pc[e] \notin {"resize", "fill"}
          /\ \A k \in launched : /\ k.sin = SinOf(k.index * rot_angle)
                                 /\ k.cos = CosOf(k.index * rot_angle)

\* two workers raced for the tables: one built them while the other was
\* blocked in call_once, and both are at their kernel launch
C10_Witness ==
    /\ fdk_devices_ >= 2
    /\ constructions = 1
    /\ proc_pc[0] = "launch"
    /\ proc_pc[1] = "launch"

\* the positions of a worker after its wait for input_num_set_
PastWait == {"check", "call_once", "resize", "fill", "return", "launch"}

\* C11: no kernel is launched and no angle table is sized by the lambda before
\* set_input_num(n) has completed: a worker past its wait, and so every worker
\* that launches, sees the final input_num_ = n, and the lambda's resize gives
\* the tables n entries
C11_InputNumBeforeLaunch ==
    /\ \A d \in FdkDevices :
          proc_pc[d] \in PastWait => set_pc = "done" /\ input_num_ = num_arg
    /\ (launched # {} \/ constructions > 0) =>
          set_pc = "done" /\ input_num_ = num_arg
    /\ \A d \in FdkDevices :
          (proc_pc[d] = "fill" /\ angle_flag_ = "running") =>
             Len(sin_tab_) = num_arg /\ Len(cos_tab_) = num_arg

\* a worker has sized the tables for the two announced projections and a
\* kernel has been launched
C11_Witness ==
    /\ num_arg = 2
    /\ constructions = 1
    /\ Len(sin_tab_) = 2
    /\ launched # {}
    /\ set_pc = "done"

\* the angle file was parsed and holds fewer angles than projections are announced
ShortAngleFile == angles.openable /\ Len(angles.tokens) < num_arg

\* C12: when the angle file holds fewer angles than n_proj, the tables hold
\* n_proj entries at every kernel launch, so that sin_tab_[index] and
\* cos_tab_[index] of every launched projection are in bounds
C12_ShortFilePadded ==
    ShortAngleFile =>
       /\ \A d \in FdkDevices :
             proc_pc[d] = "launch" =>
                Len(sin_tab_) >= num_arg /\ Len(cos_tab_) >= num_arg
       /\ \A k \in launched : k.sin.fn = "sin" /\ k.cos.fn = "cos"

\* every worker has left its loop
AllTerminated == \A d \in FdkDevices : proc_pc[d] = "terminated"

\* C13: with angles = "" or an angle file that cannot be opened the
\* construction is not aborted and parses nothing, and the tables every kernel
\* launch finds are the uniform-step ones: exactly n_proj entries, entry i the
\* sine / cosine of i * rot_angle degrees
C13_UniformFallback ==
    UniformStep =>
       /\ ctor_pc \in {"parse_angles", "constructed"}
       /\ constructions = 0 => sin_tab_ = << >> /\ cos_tab_ = << >>
       /\ \A d \in FdkDevices :
             proc_pc[d] = "launch" =>
                /\ Len(sin_tab_) = num_arg
                /\ Len(cos_tab_) = num_arg
                /\ \A i \in 0..(num_arg - 1) :
                      /\ sin_tab_[i + 1] = SinOf(i * rot_angle)
                      /\ cos_tab_[i + 1] = CosOf(i * rot_angle)
       /\ (AllTerminated /\ launched # {}) =>
             sin_tab_ = UniformSinTab(num_arg) /\ cos_tab_ = UniformCosTab(num_arg)

\* the angle file could not be opened, and all workers have ended after
\* launches with the two uniform-step entries
C13_Witness ==
    /\ angles = MissingAngleFile
    /\ ctor_pc = "constructed"
    /\ num_arg = 2
    /\ AllTerminated
    /\ Cardinality(launched) = 2
    /\ sin_tab_ = <<SinOf(0), SinOf(rot_angle)>>

\* the output slices a copy of merge_volumes writes
CopyRows(k) == {z \in 0..(2 * vol_geo_.dim_z + 64) :
                   k.first_row <= z /\ z < k.first_row + k.depth}

\* C14: merge_volumes copies every sub-volume into its own z-slab of the
\* output: the slabs do not overlap, each starts at the global z-offset of its
\* sub-volume, they are written in ascending z order, and together they fill
\* the whole output volume
C14_MergeSlabs ==
    merge_output.pushed =>
       LET cs == merge_output.copies
       IN  /\ \A j \in DOMAIN cs : \A k \in DOMAIN cs :
                 j # k => CopyRows(cs[j]) \cap CopyRows(cs[k]) = {}
           /\ \A k \in DOMAIN cs :
                 cs[k].first_row = get_volume_offset(cs[k].device, cs[k].vol)
           /\ \A j \in DOMAIN cs : \A k \in DOMAIN cs :
                 j < k => cs[j].first_row <= cs[k].first_row
           /\ UNION {CopyRows(cs[k]) : k \in DOMAIN cs} = 0..(vol_geo_.dim_z - 1)

(***************************************************************************)
(* The kernel backproject and its device function interpolate              *)
(***************************************************************************)
\* a float is a rational, or d = 0: NaN (n = 0), +infinity (n = 1),
\* -infinity (n = -1); the sign of a zero is not kept
NaN == [n |-> 0, d |-> 0]
Inf(sign) == [n |-> sign, d |-> 0]
IsNaN(a) == a.d = 0 /\ a.n = 0
IsInf(a) == a.d = 0 /\ a.n # 0
IsFinite(a) == a.d # 0
Sign(i) == IF i < 0 THEN -1 ELSE 1

FNeg(a) == [n |-> -a.n, d |-> a.d]
FAdd(a, b) ==
    IF IsNaN(a) \/ IsNaN(b) THEN NaN
    ELSE IF IsInf(a) /\ IsInf(b) THEN (IF a.n = b.n THEN a ELSE NaN)
    ELSE IF IsInf(a) THEN a
    ELSE IF IsInf(b) THEN b
    ELSE QAdd(a, b)
FSub(a, b) == FAdd(a, FNeg(b))
FMul(a, b) ==
    IF IsNaN(a) \/ IsNaN(b) THEN NaN
    ELSE IF IsInf(a) \/ IsInf(b)
         THEN (IF a.n = 0 \/ b.n = 0 THEN NaN ELSE Inf(Sign(a.n) * Sign(b.n)))
    ELSE QMul(a, b)
FDiv(a, b) ==
    IF IsNaN(a) \/ IsNaN(b) THEN NaN
    ELSE IF IsInf(a) THEN (IF IsInf(b) THEN NaN ELSE Inf(Sign(a.n) * Sign(b.n)))
    ELSE IF IsInf(b) THEN QInt(0)
    ELSE IF b.n = 0 THEN (IF a.n = 0 THEN NaN ELSE Inf(Sign(a.n)))
    ELSE QDiv(a, b)
\* a comparison with NaN is false
FLt(a, b) ==
    /\ ~IsNaN(a) /\ ~IsNaN(b)
    /\ IF IsInf(a) THEN (a.n < 0 /\ b # a)
       ELSE IF IsInf(b) THEN b.n > 0
       ELSE QLt(a, b)
FGe(a, b) == ~IsNaN(a) /\ ~IsNaN(b) /\ ~FLt(a, b)
floorf(a) == IF IsFinite(a) THEN QInt(QFloor(a)) ELSE a
ceilf(a) == IF IsFinite(a) THEN QInt(QCeil(a)) ELSE a

\* -(dim * size2) + size2 + coord * size
vol_centered_coordinate(coord, dim, size) ==
    LET size2 == FDiv(size, QInt(2))
    IN  FAdd(FAdd(FNeg(FMul(QInt(dim), size2)), size2), FMul(QInt(coord), size))

\* (coord - size2 - min) / size with min = -(dim * size2) - offset
proj_real_coordinate(coord, dim, size, offset) ==
    LET size2 == FDiv(size, QInt(2))
        min == FSub(FNeg(FMul(QInt(dim), size2)), offset)
    IN  FDiv(FSub(FSub(coord, size2), min), size)

\* static_cast<unsigned int>(x) of a float the bounds check has accepted
as_unsigned(x) == QTrunc(x)

\* interpolate: the weights, the validity of the four corners, the pixels it
\* reads and the value it returns; proj[row][column], both counted from 1
interpolate(h, v, proj, proj_width, proj_height, pixel_size_x, pixel_size_y, offset_x, offset_y) ==
    LET h_real == proj_real_coordinate(h, proj_width, pixel_size_x, offset_x)
        v_real == proj_real_coordinate(v, proj_height, pixel_size_y, offset_y)
        h_j0 == floorf(h_real)
        h_j1 == ceilf(h_real)
        v_i0 == floorf(v_real)
        v_i1 == ceilf(v_real)
        w_h0 == FDiv(FSub(h_real, h_j0), FSub(h_j1, h_j0))
        w_v0 == FDiv(FSub(v_real, v_i0), FSub(v_i1, v_i0))
        w_h1 == FSub(QInt(1), w_h0)
        w_v1 == FSub(QInt(1), w_v0)
        h_j0_valid == FGe(h_j0, QInt(0)) /\ FLt(h_j0, QInt(proj_width))
        h_j1_valid == FGe(h_j1, QInt(0)) /\ FLt(h_j1, QInt(proj_width))
        v_i0_valid == FGe(v_i0, QInt(0)) /\ FLt(v_i0, QInt(proj_height))
        v_i1_valid == FGe(v_i1, QInt(0)) /\ FLt(v_i1, QInt(proj_height))
        Pixel(row, col) == proj[as_unsigned(row) + 1][as_unsigned(col) + 1]
        tl == IF h_j0_valid /\ v_i0_valid THEN Pixel(v_i0, h_j0) ELSE QInt(0)
        bl == IF h_j0_valid /\ v_i1_valid THEN Pixel(v_i1, h_j0) ELSE QInt(0)
        tr == IF h_j1_valid /\ v_i0_valid THEN Pixel(v_i0, h_j1) ELSE QInt(0)
        br == IF h_j1_valid /\ v_i1_valid THEN Pixel(v_i1, h_j1) ELSE QInt(0)
        reads ==
            (IF h_j0_valid /\ v_i0_valid THEN {<<v_i0, h_j0>>} ELSE {}) \cup
            (IF h_j0_valid /\ v_i1_valid THEN {<<v_i1, h_j0>>} ELSE {}) \cup
            (IF h_j1_valid /\ v_i0_valid THEN {<<v_i0, h_j1>>} ELSE {}) \cup
            (IF h_j1_valid /\ v_i1_valid THEN {<<v_i1, h_j1>>} ELSE {})
        val == FAdd(FAdd(FAdd(FMul(FMul(w_h1, w_v1), tl),
                              FMul(FMul(w_h1, w_v0), bl)),
                         FMul(FMul(w_h0, w_v1), tr)),
                    FMul(FMul(w_h0, w_v0), br))
    IN  [h_real |-> h_real, v_real |-> v_real,
         h_j0 |-> h_j0, h_j1 |-> h_j1, v_i0 |-> v_i0, v_i1 |-> v_i1,
         w_h0 |-> w_h0, w_v0 |-> w_v0, w_h1 |-> w_h1, w_v1 |-> w_v1,
         h_j0_valid |-> h_j0_valid, h_j1_valid |-> h_j1_valid,
         v_i0_valid |-> v_i0_valid, v_i1_valid |-> v_i1_valid,
         tl |-> tl, bl |-> bl, tr |-> tr, br |-> br,
         reads |-> reads, val |-> val]

\* the locals of the thread (k, l, m) of backproject and the value it adds to
\* its voxel: row[k] += 0.5f * det * powf(u, 2.f)
backproject(a, k, l, m) ==
    LET x_k == vol_centered_coordinate(k, a.vol_w, a.voxel_size_x)
        y_l == vol_centered_coordinate(l, a.vol_h, a.voxel_size_y)
        z_m == vol_centered_coordinate(m, a.vol_d, a.voxel_size_z)
        s == FAdd(FMul(x_k, a.angle_cos), FMul(y_l, a.angle_sin))
        t == FAdd(FMul(FNeg(x_k), a.angle_sin), FMul(y_l, a.angle_cos))
        z == z_m
        factor == FDiv(QInt(a.dist_sd), FSub(s, QInt(a.dist_src)))
        h == FMul(t, factor)
        v == FMul(z, factor)
        ip == interpolate(h, v, a.proj, a.proj_w, a.proj_h, a.pixel_size_x,
                          a.pixel_size_y, a.pixel_offset_x, a.pixel_offset_y)
        det == ip.val
        u == FDiv(QInt(a.dist_src), FSub(s, QInt(a.dist_src)))
    IN  [k |-> k, l |-> l, m |-> m, x_k |-> x_k, y_l |-> y_l, z_m |-> z_m,
         s |-> s, t |-> t, h |-> h, v |-> v, ip |-> ip, det |-> det, u |-> u,
         add |-> FMul(FMul(Q(1, 2), det), FMul(u, u))]

\* the sub-volumes of a launch: up to MaxVox voxels along each axis
MaxVox == 2
\* the projections of a launch: up to MaxPix pixels along each axis
MaxPix == 2

\* a projection of w x h pixels: all zero, or every pixel its own value
ProjImages(w, h) ==
    {[i \in 1..h |-> [j \in 1..w |-> QInt(0)]],
     [i \in 1..h |-> [j \in 1..w |-> QInt((i - 1) * w + j)]]}

\* sine and cosine of the projection's angle: 0 and atan(3/4)
KernelAngles == {<<QInt(0), QInt(1)>>, <<Q(3, 5), Q(4, 5)>>}

\* geo_.dist_src and dist_sd_: the source is outside the volume
KernelDistances == {<<2, 3>>}

\* the voxel sizes of the volume geometry
KernelVoxelSizes == {Q(1, 2), QInt(1)}

\* the places of a sub-volume of depth d in a volume cut into 1 or 2
\* sub-volumes of equal depth: its z-offset and the volume's dim_z
KernelPlaces(d) == {[z_offset |-> c[2] * d, dim_z |-> c[1] * d] :
                       c \in {<<1, 0>>, <<2, 0>>, <<2, 1>>}}

\* the arguments of a launch of Feldkamp::processor: a sub-volume v, vol_geo_'s
\* voxel sizes, the projection img, geo_'s pixel sizes and offsets, the table
\* entries of img.index(), geo_.dist_src and dist_sd_
LaunchArgs(w, h, d, vs, p, ang, dist, place) ==
    [launched |-> TRUE,
     vol_w |-> w, vol_h |-> h, vol_d |-> d,
     voxel_size_x |-> vs, voxel_size_y |-> vs, voxel_size_z |-> vs,
     proj |-> p, proj_w |-> Len(p[1]), proj_h |-> Len(p),
     pixel_size_x |-> QInt(1), pixel_size_y |-> QInt(1),
     pixel_offset_x |-> QInt(0), pixel_offset_y |-> QInt(0),
     angle_sin |-> ang[1], angle_cos |-> ang[2],
     dist_src |-> dist[1], dist_sd |-> dist[2],
     z_offset |-> place.z_offset, dim_z |-> place.dim_z]

\* the voxels of a sub-volume
Voxels(a) == (0..(a.vol_w - 1)) \X (0..(a.vol_h - 1)) \X (0..(a.vol_d - 1))

KernelInit ==
    /\ SchedIdle
    /\ StageIdle
    /\ FdkIdle
    /\ MergeIdle
    /\ AccumIdle
    /\ RoiIdle
    /\ S1Idle
    /\ WeightIdle
    /\ FilterIdle
    /\ KernelIdle

\* ddrf::cuda::launch(v.width(), v.height(), v.depth(), backproject, ...) on a
\* sub-volume that init_volume has set to 0.f
launch ==
    /\ ~bp_args.launched
    /\ \E w \in 1..MaxVox, h \in 1..MaxVox, d \in 1..MaxVox, vs \in KernelVoxelSizes,
          pw \in 1..MaxPix, ph \in 1..MaxPix, ang \in KernelAngles,
          dist \in KernelDistances :
          \E p \in ProjImages(pw, ph), place \in KernelPlaces(d) :
             LET a == LaunchArgs(w, h, d, vs, p, ang, dist, place)
             IN  /\ bp_args' = a
                 /\ bp_vol' = [x \in Voxels(a) |-> QInt(0)]
    /\ bp_next' = 0
    /\ UNCHANGED bp_trace
    /\ UNCHANGED notKernel

\* one thread of the kernel; every thread writes its own voxel only, so the
\* threads are taken in the order of their index
backproject_thread ==
    /\ bp_args.launched
    /\ bp_next < bp_args.vol_w * bp_args.vol_h * bp_args.vol_d
    /\ LET k == bp_next % bp_args.vol_w
           l == (bp_next \div bp_args.vol_w) % bp_args.vol_h
           m == bp_next \div (bp_args.vol_w * bp_args.vol_h)
       IN  \E th \in {backproject(bp_args, k, l, m)} :
              /\ bp_trace' = th
              /\ bp_vol' = [bp_vol EXCEPT ![<<k, l, m>>] = FAdd(@, th.add)]
    /\ bp_next' = bp_next + 1
    /\ UNCHANGED bp_args
    /\ UNCHANGED notKernel

KernelNext ==
    \/ launch
    \/ backproject_thread

KernelSpec == KernelInit /\ [][KernelNext]_vars

\* C15: in backproject the z coordinate of voxel m of a sub-volume is that of
\* the global slice m + z-offset, centred against the full dim_z
C15_GlobalZ ==
    (bp_args.launched /\ bp_next > 0) =>
        bp_trace.z_m = vol_centered_coordinate(bp_trace.m + bp_args.z_offset,
                                               bp_args.dim_z, bp_args.voxel_size_z)

\* the pixels of the projection buffer, as (row, column)
BufferPixels(a) == {<<QInt(i), QInt(j)>> : i \in 0..(a.proj_h - 1), j \in 0..(a.proj_w - 1)}

\* C17: the bilinear interpolation is well defined for every coordinate, a
\* pixel centre (floor = ceil) and a coordinate outside the detector included:
\* no weight comes from a division by zero, the two weights of an axis sum to
\* 1, a corner outside the detector contributes zero, and no pixel outside the
\* buffer is read
C17_InterpolationWellDefined ==
    (bp_args.launched /\ bp_next > 0) =>
        LET ip == bp_trace.ip
        IN  /\ IsFinite(ip.w_h0) /\ IsFinite(ip.w_v0)
            /\ FAdd(ip.w_h0, ip.w_h1) = QInt(1)
            /\ FAdd(ip.w_v0, ip.w_v1) = QInt(1)
            /\ ~(ip.h_j0_valid /\ ip.v_i0_valid) => ip.tl = QInt(0)
            /\ ~(ip.h_j0_valid /\ ip.v_i1_valid) => ip.bl = QInt(0)
            /\ ~(ip.h_j1_valid /\ ip.v_i0_valid) => ip.tr = QInt(0)
            /\ ~(ip.h_j1_valid /\ ip.v_i1_valid) => ip.br = QInt(0)
            /\ ip.reads \subseteq BufferPixels(bp_args)
            /\ IsFinite(ip.val)

(***************************************************************************)
(* The accumulation of one voxel over the projections                      *)
(***************************************************************************)
\* the bits of the significand of a float
FloatMantissaBits == 24

\* the projections that contribute to a voxel
MaxContribs == 3

RECURSIVE Pow2(_)
Pow2(n) == IF n = 0 THEN 1 ELSE 2 * Pow2(n - 1)

\* the spacing of the numbers with the given bits of significand around x >= 0
RECURSIVE Ulp(_, _, _)
Ulp(bits, x, p) == IF x < Pow2(bits) * p THEN p ELSE Ulp(bits, x, 2 * p)

\* x >= 0 rounded to the nearest number with the given bits of significand,
\* a tie to the even significand
RoundTo(bits, x) ==
    LET ulp == Ulp(bits, x, 1)
        q == x \div ulp
        r == x % ulp
    IN  IF 2 * r < ulp THEN q * ulp
        ELSE IF 2 * r > ulp THEN (q + 1) * ulp
        ELSE IF q % 2 = 0 THEN q * ulp ELSE (q + 1) * ulp

\* faulty variant: a type with 2 bits of significand
RoundToFloat_TwoBits(x) == RoundTo(2, x)

\* the result of a float operation whose exact value is x
RoundToFloat(x) == RoundTo(FloatMantissaBits, x)

\* the values 0.5f * det * powf(u, 2.f) of the projections, in units of the
\* smallest of them
ContribValues == {1, 3, Pow2(FloatMantissaBits)}

\* a voxel that init_volume has set to 0.f and the contributions of its
\* projections, none of them added yet
AccumInit ==
    /\ SchedIdle
    /\ StageIdle
    /\ FdkIdle
    /\ MergeIdle
    /\ KernelIdle
    /\ RoiIdle
    /\ S1Idle
    /\ WeightIdle
    /\ FilterIdle
    /\ acc_pending \in UNION {[1..n -> ContribValues] : n \in 1..MaxContribs}
    /\ acc_row = 0
    /\ acc_added = << >>

\* the sequence without its element i
Without(seq, i) == [j \in 1..(Len(seq) - 1) |-> IF j < i THEN seq[j] ELSE seq[j + 1]]

\* row[k] += 0.5f * det * powf(u, 2.f) of the kernel launched for one of the
\* projections; the projections arrive in any order
accumulate ==
    /\ \E i \in DOMAIN acc_pending :
          /\ acc_row' = RoundToFloat(acc_row + acc_pending[i])
          /\ acc_added' = Append(acc_added, acc_pending[i])
          /\ acc_pending' = Without(acc_pending, i)
    /\ UNCHANGED notAccum

AccumNext == accumulate

AccumSpec == AccumInit /\ [][AccumNext]_vars

\* the sum of the values without rounding
RECURSIVE ExactSum(_)
ExactSum(seq) == IF seq = << >> THEN 0 ELSE Head(seq) + ExactSum(Tail(seq))

\* the float sum of the values added in the order of the sequence
RECURSIVE FloatSum(_, _)
FloatSum(row, seq) ==
    IF seq = << >> THEN row ELSE FloatSum(RoundToFloat(row + Head(seq)), Tail(seq))

\* the values in ascending order
RECURSIVE Ascending(_)
Ascending(seq) ==
    IF seq = << >> THEN << >>
    ELSE LET i == CHOOSE j \in DOMAIN seq : \A k \in DOMAIN seq : seq[j] <= seq[k]
         IN  <<seq[i]>> \o Ascending(Without(seq, i))

HalfWord == 65536

\* the volumes apply_roi is called with: up to MaxDim voxels along each axis
MaxDim == 2

U32(i) == [hi |-> i \div HalfWord, lo |-> i % HalfWord]
UINT32_MAX == [hi |-> HalfWord - 1, lo |-> HalfWord - 1]
ULt(a, b) == a.hi < b.hi \/ (a.hi = b.hi /\ a.lo < b.lo)
ULe(a, b) == ~ULt(b, a)
\* a - b modulo 2^32
USub(a, b) ==
    LET borrow == IF a.lo < b.lo THEN 1 ELSE 0
    IN  [hi |-> (a.hi - b.hi - borrow + HalfWord) % HalfWord,
         lo |-> (a.lo - b.lo + HalfWord) % HalfWord]
\* ++a modulo 2^32
UInc(a) ==
    IF a.lo = HalfWord - 1
    THEN [hi |-> (a.hi + 1) % HalfWord, lo |-> 0]
    ELSE [hi |-> a.hi, lo |-> a.lo + 1]

\* the lambdas of apply_roi
check_coords(low, high) == ULt(low, high)
check_dims(updated, old) == ULe(updated, old)

\* auto dim_x = x2 - x1; if(x1 == 0) ++dim_x;
RoiDim(low, high) ==
    IF low = U32(0) THEN UInc(USub(high, low)) ELSE USub(high, low)

apply_roi(vol_geo, x1, x2, y1, y2, z1, z2) ==
    IF check_coords(x1, x2) /\ check_coords(y1, y2) /\ check_coords(z1, z2)
    THEN LET dim_x == RoiDim(x1, x2)
             dim_y == RoiDim(y1, y2)
             dim_z == RoiDim(z1, z2)
         IN  IF /\ check_dims(dim_x, vol_geo.dim_x)
                /\ check_dims(dim_y, vol_geo.dim_y)
                /\ check_dims(dim_z, vol_geo.dim_z)
             THEN [vol_geo EXCEPT !.dim_x = dim_x, !.dim_y = dim_y, !.dim_z = dim_z]
             ELSE vol_geo
    ELSE vol_geo

\* the ROI coordinates tried on a volume of n voxels along each axis
RoiCoords(n) == {U32(i) : i \in 0..(n + 1)} \cup {UINT32_MAX}

\* a call of apply_roi with a volume geometry and six coordinates
RoiInit ==
    /\ SchedIdle
    /\ StageIdle
    /\ FdkIdle
    /\ MergeIdle
    /\ KernelIdle
    /\ AccumIdle
    /\ S1Idle
    /\ WeightIdle
    /\ FilterIdle
    /\ \E n \in 1..MaxDim :
          \E x1 \in RoiCoords(n), x2 \in RoiCoords(n), y1 \in RoiCoords(n),
             y2 \in RoiCoords(n), z1 \in RoiCoords(n), z2 \in RoiCoords(n) :
             roi_args = [called |-> TRUE,
                         vol_geo |-> [dim_x |-> U32(n), dim_y |-> U32(n),
                                      dim_z |-> U32(n), l_vx_x |-> Q(1, 2),
                                      l_vx_y |-> Q(1, 2), l_vx_z |-> Q(1, 2)],
                         x1 |-> x1, x2 |-> x2, y1 |-> y1, y2 |-> y2,
                         z1 |-> z1, z2 |-> z2]
    /\ roi_geo = [returned |-> FALSE]

\* apply_roi returns
apply_roi_return ==
    /\ roi_args.called
    /\ ~roi_geo.returned
    /\ roi_geo' = [returned |-> TRUE,
                   geo |-> apply_roi(roi_args.vol_geo, roi_args.x1, roi_args.x2,
                                     roi_args.y1, roi_args.y2, roi_args.z1,
                                     roi_args.z2)]
    /\ UNCHANGED roi_args
    /\ UNCHANGED notRoi

RoiNext == apply_roi_return

RoiSpec == RoiInit /\ [][RoiNext]_vars

\* the dimension high - low, plus one when low is 0, of a ROI with low < high
\* is larger than the volume's dim
ExceedsDim(low, high, dim) ==
    IF low = U32(0) THEN ULe(dim, high) ELSE ULt(dim, USub(high, low))

\* an axis of the ROI of the call is not low < high, or gives a dimension
\* larger than the volume's
RoiRejected ==
    LET a == roi_args
    IN  \/ ~ULt(a.x1, a.x2) \/ ~ULt(a.y1, a.y2) \/ ~ULt(a.z1, a.z2)
        \/ ExceedsDim(a.x1, a.x2, a.vol_geo.dim_x)
        \/ ExceedsDim(a.y1, a.y2, a.vol_geo.dim_y)
        \/ ExceedsDim(a.z1, a.z2, a.vol_geo.dim_z)

\* C18: apply_roi returns the input geometry unchanged whenever an axis has
\* low >= high or the resulting dimension would exceed the original one; it
\* always returns, and it never applies the ROI to some axes only
C18_RoiRejectedUnchanged ==
    roi_geo.returned =>
       /\ RoiRejected => roi_geo.geo = roi_args.vol_geo
       /\ \/ roi_geo.geo = roi_args.vol_geo
          \/ /\ roi_geo.geo.dim_x = RoiDim(roi_args.x1, roi_args.x2)
             /\ roi_geo.geo.dim_y = RoiDim(roi_args.y1, roi_args.y2)
             /\ roi_geo.geo.dim_z = RoiDim(roi_args.z1, roi_args.z2)

\* the ROI of the call has low < high and high <= dim on every axis
RoiInside ==
    LET a == roi_args
    IN  /\ ULt(a.x1, a.x2) /\ ULe(a.x2, a.vol_geo.dim_x)
        /\ ULt(a.y1, a.y2) /\ ULe(a.y2, a.vol_geo.dim_y)
        /\ ULt(a.z1, a.z2) /\ ULe(a.z2, a.vol_geo.dim_z)

\* C19: for a ROI with low < high and high <= dim on every axis apply_roi
\* applies the ROI, the whole-axis ROI included: every dimension becomes
\* high - low (plus one when low is 0) and is not larger than the original
\* one, and the voxel sizes are unchanged
C19_RoiInsideApplied ==
    (roi_geo.returned /\ RoiInside) =>
       /\ roi_geo.geo.dim_x = RoiDim(roi_args.x1, roi_args.x2)
       /\ roi_geo.geo.dim_y = RoiDim(roi_args.y1, roi_args.y2)
       /\ roi_geo.geo.dim_z = RoiDim(roi_args.z1, roi_args.z2)
       /\ ULe(roi_geo.geo.dim_x, roi_args.vol_geo.dim_x)
       /\ ULe(roi_geo.geo.dim_y, roi_args.vol_geo.dim_y)
       /\ ULe(roi_geo.geo.dim_z, roi_args.vol_geo.dim_z)
       /\ roi_geo.geo.l_vx_x = roi_args.vol_geo.l_vx_x
       /\ roi_geo.geo.l_vx_y = roi_args.vol_geo.l_vx_y
       /\ roi_geo.geo.l_vx_z = roi_args.vol_geo.l_vx_z

(***************************************************************************)
(* Scenario S1                                                             *)
(***************************************************************************)
\* n_row = n_col = 32, pixel pitch 1.0 mm, no offsets, d_so = d_od = 100
S1 == [det_pixels_row |-> 32, det_pixels_column |-> 32,
       det_pixel_size_horiz |-> 1, det_pixel_size_vert |-> 1,
       det_offset_horiz |-> 0, det_offset_vert |-> 0,
       dist_src |-> 100, dist_det |-> 100]

\* the square of std::sin(std::atan(q)): q^2 / (1 + q^2)
SinAtanSq(q) == Q(q.n * q.n, q.n * q.n + q.d * q.d)

\* static_cast<std::size_t>(x) of the x >= 0 whose square is p
TruncSqrt(p) ==
    CHOOSE k \in 0..((p.n \div p.d) + 1) :
        k * k * p.d <= p.n /\ (k + 1) * (k + 1) * p.d > p.n

\* faulty variant: the slices are counted over half the detector height only
SlicesSq_Half(g, voxel_size_sq) ==
    LET N_v == g.det_pixels_column
        d_v == g.det_pixel_size_vert
        delta_v == g.det_offset_vert * d_v
        k == QMul(QAdd(Q(N_v * d_v, 2), QInt(Abs(delta_v))),
                  Q(Abs(g.dist_src), dist_sd_(g)))
    IN  QDiv(QMul(k, k), voxel_size_sq)

\* the square of ((N_v * d_v) / 2 + |delta_v|) * (|dist_src| / dist_sd_) *
\* (2 / voxel_size_z)
SlicesSq(g, voxel_size_sq) ==
    LET N_v == g.det_pixels_column
        d_v == g.det_pixel_size_vert
        delta_v == g.det_offset_vert * d_v
        k == QMul(QAdd(Q(N_v * d_v, 2), QInt(Abs(delta_v))),
                  Q(Abs(g.dist_src), dist_sd_(g)))
    IN  QDiv(QMul(QInt(4), QMul(k, k)), voxel_size_sq)

\* calculate_volume_geo for a geometry whose sine is not rational: r and the
\* voxel sizes are kept as their squares
calculate_volume_geo_sq(g) ==
    LET d_h == QInt(g.det_pixel_size_horiz)
        half == HalfWidth(g)
        r_sq == QMul(QInt(g.dist_src * g.dist_src),
                     SinAtanSq(QDiv(half, QInt(dist_sd_(g)))))
        pixels == QDiv(half, d_h)
        voxel_size_x_sq == QDiv(r_sq, QMul(pixels, pixels))
        dim_x == TruncSqrt(QDiv(QMul(QInt(4), r_sq), voxel_size_x_sq))
        dim_z == TruncSqrt(SlicesSq(g, voxel_size_x_sq))
    IN  [dim_x |-> dim_x, dim_y |-> dim_x, dim_z |-> dim_z,
         voxel_size_x_sq |-> voxel_size_x_sq, voxel_size_y_sq |-> voxel_size_x_sq,
         voxel_size_z_sq |-> voxel_size_x_sq]


\* a * b and a + b of reduced fractions, cancelling before multiplying
QMulC(a, b) ==
    IF a.n = 0 \/ b.n = 0 THEN QInt(0)
    ELSE LET g1 == GCD(Abs(a.n), b.d)
             g2 == GCD(Abs(b.n), a.d)
         IN  [n |-> (a.n \div g1) * (b.n \div g2), d |-> (a.d \div g2) * (b.d \div g1)]
QAddC(a, b) ==
    IF a.n = 0 THEN b
    ELSE IF b.n = 0 THEN a
    ELSE LET g == GCD(a.d, b.d)
         IN  Q(a.n * (b.d \div g) + b.n * (a.d \div g), (a.d \div g) * b.d)
QInv(a) == Q(a.d, a.n)

\* std::sin(std::atan(n / d)) is n / sqrt(n * n + d * d); in S1 the number under
\* the root is no square, and a value the code computes is a + b * sqrt(S1Radicand)
\* kept as [a, b]
S1Radicand ==
    LET q == QDiv(HalfWidth(S1), QInt(dist_sd_(S1)))
    IN  q.n * q.n + q.d * q.d
XInt(i) == [a |-> QInt(i), b |-> QInt(0)]
XAdd(x, y) == [a |-> QAddC(x.a, y.a), b |-> QAddC(x.b, y.b)]
XNeg(x) == [a |-> QNeg(x.a), b |-> QNeg(x.b)]
XSub(x, y) == XAdd(x, XNeg(y))
XMul(x, y) ==
    IF x.b.n = 0 THEN [a |-> QMulC(x.a, y.a), b |-> QMulC(x.a, y.b)]
    ELSE IF y.b.n = 0 THEN [a |-> QMulC(x.a, y.a), b |-> QMulC(x.b, y.a)]
    ELSE [a |-> QAddC(QMulC(x.a, y.a), QMulC(QInt(S1Radicand), QMulC(x.b, y.b))),
          b |-> QAddC(QMulC(x.a, y.b), QMulC(x.b, y.a))]
XIsZero(x) == x.a.n = 0 /\ x.b.n = 0
XInv(y) ==
    IF y.b.n = 0 THEN [a |-> QInv(y.a), b |-> QInt(0)]
    ELSE
    LET norm == QAddC(QMulC(y.a, y.a),
                      QNeg(QMulC(QInt(S1Radicand), QMulC(y.b, y.b))))
    IN  [a |-> QMulC(y.a, QInv(norm)), b |-> QNeg(QMulC(y.b, QInv(norm)))]
XDiv(x, y) == XMul(x, XInv(y))
\* floorf(x) = ceilf(x)
XIsInt(x) == x.b.n = 0 /\ x.a.d = 1

\* std::sin(std::atan(q)) as [a, b]
XSinAtan(q) == [a |-> QInt(0), b |-> Q(q.n, q.n * q.n + q.d * q.d)]

\* calculate_volume_geo's voxel size of S1: r / (((N_h * d_h) / 2 + |delta_h|) / d_h)
S1VoxelSize ==
    LET d_h == QInt(S1.det_pixel_size_horiz)
        half == HalfWidth(S1)
        r == XMul(XInt(S1.dist_src), XSinAtan(QDiv(half, QInt(dist_sd_(S1)))))
        pixels == QDiv(half, d_h)
    IN  XDiv(r, [a |-> pixels, b |-> QInt(0)])

\* vol_centered_coordinate and proj_real_coordinate on these numbers
vol_centered_coordinate_S1(coord, dim, size) ==
    LET size2 == XDiv(size, XInt(2))
    IN  XAdd(XAdd(XNeg(XMul(XInt(dim), size2)), size2), XMul(XInt(coord), size))
proj_real_coordinate_S1(coord, dim, size, offset) ==
    LET size2 == XDiv(size, XInt(2))
        min == XSub(XNeg(XMul(XInt(dim), size2)), offset)
    IN  XDiv(XSub(XSub(coord, size2), min), size)

\* interpolate on a projection whose pixels are all 0.f: the four corners are
\* 0.f inside and outside the projection. A weight is 0 / 0 = NaN when floorf
\* and ceilf of the coordinate coincide; any other weight is finite and stands
\* here as 1/2, for its product with a 0.f pixel is 0.f whatever its value
interpolate_zero(h_real, v_real) ==
    LET w_h0 == IF XIsInt(h_real) THEN NaN ELSE Q(1, 2)
        w_v0 == IF XIsInt(v_real) THEN NaN ELSE Q(1, 2)
        w_h1 == FSub(QInt(1), w_h0)
        w_v1 == FSub(QInt(1), w_v0)
        tl == QInt(0)
    IN  FAdd(FAdd(FAdd(FMul(FMul(w_h1, w_v1), tl),
                       FMul(FMul(w_h1, w_v0), tl)),
                  FMul(FMul(w_h0, w_v1), tl)),
             FMul(FMul(w_h0, w_v0), tl))

\* the volume geometry of S1
S1VolumeGeo == calculate_volume_geo_sq(S1)

\* the arguments of the launch of scenario S1: the whole volume is one
\* sub-volume, the projection is all 0.f, its angle is 0
S1LaunchArgs ==
    LET vg == S1VolumeGeo
    IN  [launched |-> TRUE,
         vol_w |-> vg.dim_x, vol_h |-> vg.dim_y, vol_d |-> vg.dim_z,
         voxel_size_x |-> S1VoxelSize, voxel_size_y |-> S1VoxelSize,
         voxel_size_z |-> S1VoxelSize,
         proj_w |-> S1.det_pixels_row, proj_h |-> S1.det_pixels_column,
         pixel_size_x |-> XInt(S1.det_pixel_size_horiz),
         pixel_size_y |-> XInt(S1.det_pixel_size_vert),
         pixel_offset_x |-> XInt(S1.det_offset_horiz),
         pixel_offset_y |-> XInt(S1.det_offset_vert),
         angle_sin |-> XInt(0), angle_cos |-> XInt(1),
         dist_src |-> Abs(S1.dist_src), dist_sd |-> dist_sd_(S1)]

S1Init ==
    /\ SchedIdle
    /\ StageIdle
    /\ FdkIdle
    /\ MergeIdle
    /\ KernelIdle
    /\ AccumIdle
    /\ RoiIdle
    /\ S1Idle
    /\ WeightIdle
    /\ FilterIdle

\* ddrf::cuda::launch of backproject on the volume init_volume has set to 0.f
launch_S1 ==
    /\ ~s1_args.launched
    /\ s1_args' = S1LaunchArgs
    /\ s1_next' = 0
    /\ UNCHANGED <<s1_vol, s1_trace>>
    /\ UNCHANGED notS1

\* one thread of the kernel, its locals in the order the code computes them; a
\* zero s - dist_src makes factor infinite and the interpolated value NaN; with
\* det 0.f or NaN and u finite, 0.5f * det * powf(u, 2.f) is 0.f or NaN
backproject_thread_S1 ==
    /\ s1_args.launched
    /\ s1_next < s1_args.vol_w * s1_args.vol_h * s1_args.vol_d
    /\ LET a == s1_args
           k == s1_next % s1_args.vol_w
           l == (s1_next \div s1_args.vol_w) % s1_args.vol_h
           m == s1_next \div (s1_args.vol_w * s1_args.vol_h)
       IN  \E x_k \in {vol_centered_coordinate_S1(k, a.vol_w, a.voxel_size_x)},
              y_l \in {vol_centered_coordinate_S1(l, a.vol_h, a.voxel_size_y)},
              z_m \in {vol_centered_coordinate_S1(m, a.vol_d, a.voxel_size_z)} :
           \E s \in {XAdd(XMul(x_k, a.angle_cos), XMul(y_l, a.angle_sin))},
              t \in {XAdd(XMul(XNeg(x_k), a.angle_sin), XMul(y_l, a.angle_cos))} :
           \E den \in {XSub(s, XInt(a.dist_src))} :
           \E factor \in {XDiv(XInt(a.dist_sd), den)} :
           \E h \in {XMul(t, factor)}, v \in {XMul(z_m, factor)} :
           \E h_real \in {proj_real_coordinate_S1(h, a.proj_w, a.pixel_size_x,
                                                   a.pixel_offset_x)},
              v_real \in {proj_real_coordinate_S1(v, a.proj_h, a.pixel_size_y,
                                                   a.pixel_offset_y)} :
           \E det \in {IF XIsZero(den) THEN NaN ELSE interpolate_zero(h_real, v_real)} :
           \E add \in {FMul(Q(1, 2), det)} :
           \E row_k \in {FAdd(QInt(0), add)} :
              /\ s1_trace' = [k |-> k, l |-> l, m |-> m, den |-> den,
                              h_real |-> h_real, v_real |-> v_real,
                              det |-> det, add |-> add]
              /\ s1_vol' = IF row_k = QInt(0) THEN s1_vol
                           ELSE Append(s1_vol, <<k, l, m, row_k>>)
    /\ s1_next' = s1_next + 1
    /\ UNCHANGED s1_args
    /\ UNCHANGED notS1

S1Next ==
    \/ launch_S1
    \/ backproject_thread_S1

S1Spec == S1Init /\ [][S1Next]_vars

\* C20 as stated: in scenario S1 the volume is approximately 16 x 16 x 16 with
\* dim_x = dim_y and equal voxel sizes, and one all-zero projection at angle 0
\* leaves every voxel exactly 0
C20_S1AsStated ==
    LET vg == S1VolumeGeo
    IN  /\ vg.dim_x \in 15..17 /\ vg.dim_y \in 15..17 /\ vg.dim_z \in 15..17
        /\ vg.dim_x = vg.dim_y
        /\ vg.voxel_size_x_sq = vg.voxel_size_y_sq
        /\ vg.voxel_size_y_sq = vg.voxel_size_z_sq
        /\ s1_vol = << >>

\* C20: in scenario S1 the volume is 32 x 32 x 32 with dim_x = dim_y and equal
\* voxel sizes, the kernel is launched on that volume, no thread divides by
\* zero or meets a pixel centre, and every voxel stays exactly 0
C20_S1 ==
    LET vg == S1VolumeGeo
    IN  /\ vg.dim_x = 32 /\ vg.dim_y = 32 /\ vg.dim_z = 32
        /\ vg.dim_x = vg.dim_y
        /\ vg.voxel_size_x_sq = vg.voxel_size_y_sq
        /\ vg.voxel_size_y_sq = vg.voxel_size_z_sq
        /\ XMul(S1VoxelSize, S1VoxelSize) = [a |-> vg.voxel_size_x_sq, b |-> QInt(0)]
        /\ s1_args.launched =>
              /\ s1_args.vol_w * s1_args.vol_h * s1_args.vol_d = 32 * 32 * 32
              /\ s1_vol = << >>
              /\ s1_next > 0 =>
                    /\ ~XIsZero(s1_trace.den)
                    /\ ~XIsInt(s1_trace.h_real)
                    /\ ~XIsInt(s1_trace.v_real)
                    /\ s1_trace.add = QInt(0)

\* every thread of S1 has run and has left its voxel 0
C20_Witness ==
    /\ s1_args.launched
    /\ s1_next = s1_args.vol_w * s1_args.vol_h * s1_args.vol_d
    /\ s1_next = 32768
    /\ s1_vol = << >>


(***************************************************************************)
(* The members the components derive from the geometry, and the weighting  *)
(* kernels that use them                                                   *)
(***************************************************************************)
\* source and detector distances of either sign
WeightDistances == {<<1, 1>>, <<2, 1>>, <<-1, 2>>, <<1, -2>>, <<-1, -1>>}

\* horizontal and vertical pixel sizes
WeightPixelSizes == {<<1, 1>>, <<2, 1>>}

\* the geometries handed to the constructors: up to MaxPix pixels along each
\* axis of the detector, offsets of either sign
WeightGeoSet ==
    {[det_pixels_row |-> n[1], det_pixels_column |-> n[2],
      det_pixel_size_horiz |-> l[1], det_pixel_size_vert |-> l[2],
      det_offset_horiz |-> o[1], det_offset_vert |-> o[2],
      dist_src |-> d[1], dist_det |-> d[2]] :
        n \in (1..MaxPix) \X (1..MaxPix), l \in WeightPixelSizes,
        o \in ((-MaxOffset)..MaxOffset) \X ((-MaxOffset)..MaxOffset),
        d \in WeightDistances}

\* task::det_geo of the same detector
detector_geometry(g) ==
    [n_row |-> g.det_pixels_row, n_col |-> g.det_pixels_column,
     l_px_row |-> g.det_pixel_size_horiz, l_px_col |-> g.det_pixel_size_vert,
     delta_s |-> g.det_offset_horiz, delta_t |-> g.det_offset_vert,
     d_so |-> g.dist_src, d_od |-> g.dist_det]

Constructed(c) == c \in DOMAIN members_

WeightInit ==
    /\ SchedIdle
    /\ StageIdle
    /\ FdkIdle
    /\ MergeIdle
    /\ KernelIdle
    /\ AccumIdle
    /\ RoiIdle
    /\ S1Idle
    /\ FilterIdle
    /\ det_geo \in WeightGeoSet
    /\ members_ = << >>
    /\ weighted = << >>

\* FeldkampScheduler(geo): dist_sd_{std::abs(geo.dist_det) + std::abs(geo.dist_src)}
FeldkampScheduler_members ==
    /\ ~Constructed("FeldkampScheduler")
    /\ members_' = members_ @@
          ("FeldkampScheduler" :> [dist_sd_ |-> Abs(det_geo.dist_det) + Abs(det_geo.dist_src)])
    /\ UNCHANGED <<det_geo, weighted>>
    /\ UNCHANGED notWeight

\* Feldkamp(geo, angles): dist_sd_{geo_.dist_det + geo_.dist_src}
Feldkamp_members ==
    /\ ~Constructed("Feldkamp")
    /\ members_' = members_ @@
          ("Feldkamp" :> [dist_sd_ |-> det_geo.dist_det + det_geo.dist_src])
    /\ UNCHANGED <<det_geo, weighted>>
    /\ UNCHANGED notWeight

\* CUDAWeighting(geo): h_min_, v_min_ and d_dist_
CUDAWeighting_members ==
    /\ ~Constructed("CUDAWeighting")
    /\ LET g == det_geo
       IN  members_' = members_ @@
              ("CUDAWeighting" :>
                 [h_min_ |-> QSub(QNeg(QInt(g.det_offset_horiz * g.det_pixel_size_horiz)),
                                  Q(g.det_pixels_row * g.det_pixel_size_horiz, 2)),
                  v_min_ |-> QSub(QNeg(QInt(g.det_offset_vert * g.det_pixel_size_vert)),
                                  Q(g.det_pixels_column * g.det_pixel_size_vert, 2)),
                  d_dist_ |-> g.dist_det + g.dist_src])
    /\ UNCHANGED <<det_geo, weighted>>
    /\ UNCHANGED notWeight

\* weighting_stage::assign_task(t): h_min_, v_min_ and d_sd_
assign_task ==
    /\ ~Constructed("weighting_stage")
    /\ LET det_geo_ == detector_geometry(det_geo)
       IN  members_' = members_ @@
              ("weighting_stage" :>
                 [h_min_ |-> QSub(QInt(det_geo_.delta_s * det_geo_.l_px_row),
                                  Q(det_geo_.n_row * det_geo_.l_px_row, 2)),
                  v_min_ |-> QSub(QInt(det_geo_.delta_t * det_geo_.l_px_col),
                                  Q(det_geo_.n_col * det_geo_.l_px_col, 2)),
                  d_sd_ |-> Abs(det_geo_.d_so) + Abs(det_geo_.d_od)])
    /\ UNCHANGED <<det_geo, weighted>>
    /\ UNCHANGED notWeight

\* the locals of one thread of a weighting kernel: the pixel's detector
\* coordinates and its weight d * rsqrtf(d^2 + h^2 + v^2), kept as its sign
\* and its square
WeightThread(c, col, row, size_h, size_v, h_min, v_min, d) ==
    LET h == QAdd(QAdd(Q(size_h, 2), QInt(col * size_h)), h_min)
        v == QAdd(QAdd(Q(size_v, 2), QInt(row * size_v)), v_min)
        sum == QAdd(QAdd(QInt(d * d), QMul(h, h)), QMul(v, v))
    IN  [component |-> c, col |-> col, row |-> row, h |-> h, v |-> v,
         w_sign |-> IF d < 0 THEN -1 ELSE IF d > 0 THEN 1 ELSE 0,
         w_sq |-> IF sum.n = 0 THEN NaN ELSE QDiv(QInt(d * d), sum)]

\* weighting_kernel, launched by weighting_stage::run on a projection of the
\* detector's size: thread (s, t)
weighting_kernel ==
    /\ Constructed("weighting_stage")
    /\ LET m == members_["weighting_stage"]
           det_geo_ == detector_geometry(det_geo)
       IN  \E s \in 0..(det_geo_.n_row - 1), t \in 0..(det_geo_.n_col - 1) :
              weighted' = WeightThread("weighting_stage", s, t, det_geo_.l_px_row,
                                       det_geo_.l_px_col, m.h_min_, m.v_min_, m.d_sd_)
    /\ UNCHANGED <<det_geo, members_>>
    /\ UNCHANGED notWeight

\* weight, launched by CUDAWeighting::processor on a projection of the
\* detector's size: thread (j, i)
weight ==
    /\ Constructed("CUDAWeighting")
    /\ LET m == members_["CUDAWeighting"]
       IN  \E j \in 0..(det_geo.det_pixels_row - 1), i \in 0..(det_geo.det_pixels_column - 1) :
              weighted' = WeightThread("CUDAWeighting", j, i, det_geo.det_pixel_size_horiz,
                                       det_geo.det_pixel_size_vert, m.h_min_, m.v_min_, m.d_dist_)
    /\ UNCHANGED <<det_geo, members_>>
    /\ UNCHANGED notWeight

WeightNext ==
    \/ FeldkampScheduler_members
    \/ Feldkamp_members
    \/ CUDAWeighting_members
    \/ assign_task
    \/ weighting_kernel
    \/ weight

WeightSpec == WeightInit /\ [][WeightNext]_vars

\* d_sd = |d_so| + |d_od|
AbsDistSd(g) == Abs(g.dist_src) + Abs(g.dist_det)

\* C21: every component that keeps the source-to-detector distance holds
\* |d_so| + |d_od|, for distances of either sign
C21_SameDistSd ==
    /\ Constructed("FeldkampScheduler") =>
          members_["FeldkampScheduler"].dist_sd_ = AbsDistSd(det_geo)
    /\ Constructed("Feldkamp") => members_["Feldkamp"].dist_sd_ = AbsDistSd(det_geo)
    /\ Constructed("CUDAWeighting") => members_["CUDAWeighting"].d_dist_ = AbsDistSd(det_geo)
    /\ Constructed("weighting_stage") => members_["weighting_stage"].d_sd_ = AbsDistSd(det_geo)

\* h_min = delta_s * l_px_row - n_row * l_px_row / 2, and v_min likewise
SpecHMin(g) == QSub(QInt(g.det_offset_horiz * g.det_pixel_size_horiz), Q(g.det_pixels_row * g.det_pixel_size_horiz, 2))
SpecVMin(g) == QSub(QInt(g.det_offset_vert * g.det_pixel_size_vert), Q(g.det_pixels_column * g.det_pixel_size_vert, 2))

\* C22: both weighting implementations hold the h_min and v_min of the
\* formula and place pixel (s, t) at l/2 + s * l + h_min and l/2 + t * l + v_min,
\* for offsets of either sign
C22_SameDetectorCoordinates ==
    /\ \A c \in {"CUDAWeighting", "weighting_stage"} :
          Constructed(c) => /\ members_[c].h_min_ = SpecHMin(det_geo)
                            /\ members_[c].v_min_ = SpecVMin(det_geo)
    /\ weighted # << >> =>
          /\ weighted.h = QAdd(QAdd(Q(det_geo.det_pixel_size_horiz, 2),
                                    QInt(weighted.col * det_geo.det_pixel_size_horiz)),
                               SpecHMin(det_geo))
          /\ weighted.v = QAdd(QAdd(Q(det_geo.det_pixel_size_vert, 2),
                                    QInt(weighted.row * det_geo.det_pixel_size_vert)),
                               SpecVMin(det_geo))


(***************************************************************************)
(* CUDAFilter: the filter length, the filter kernel and the zero-padded    *)
(* copy of a projection (CUDAFilter.cu)                                    *)
(***************************************************************************)

\* std::ceil(std::log2(float(n))) for n >= 1: the least e with 2^e >= n
\* (the detector sizes of FilterGeoSet are exact in float)
RECURSIVE CeilLog2From(_, _)
CeilLog2From(n, e) == IF Pow2(e) >= n THEN e ELSE CeilLog2From(n, e + 1)
CeilLog2(n) == CeilLog2From(n, 0)

\* the remainder of C++: the sign of the dividend
CRem(a, b) == IF a >= 0 THEN a % b ELSE -((-a) % b)

\* the pixel sizes handed to the constructor
FilterTaus == {Q(1, 2), Q(1, 1), Q(2, 1)}

\* the geometries handed to the constructor: up to MaxRows pixels per detector
\* row (the projection's width), up to MaxCols pixels per detector column
FilterGeoSet ==
    {[det_pixels_row |-> w, det_pixels_column |-> h, det_pixel_size_horiz |-> t] :
        w \in 1..MaxRows, h \in 1..MaxCols, t \in FilterTaus}

\* the pixel (x, y) of the projection handed to processor; no pixel is zero
img_data(x, y) == 1 + x + y * flt_geo.det_pixels_row

FilterInit ==
    /\ SchedIdle
    /\ StageIdle
    /\ FdkIdle
    /\ MergeIdle
    /\ KernelIdle
    /\ AccumIdle
    /\ RoiIdle
    /\ S1Idle
    /\ WeightIdle
    /\ flt_geo \in FilterGeoSet
    /\ flt_members = << >>
    /\ flt_pc = "ctor"
    /\ j_loop = << >>
    /\ j_host_buffer = << >>
    /\ rs_ = << >>
    /\ converted = << >>

\* CUDAFilter::CUDAFilter: the member initialisers, then filterProcessor up
\* to the head of its loop
CUDAFilter_CUDAFilter ==
    /\ flt_pc = "ctor"
    /\ \E L \in {2 * Pow2(CeilLog2(flt_geo.det_pixels_column))} :
          /\ flt_members' = [filter_length_ |-> L, tau_ |-> flt_geo.det_pixel_size_horiz]
          /\ j_loop' = [k |-> 0, j |-> -((L - 2) \div 2)]
    /\ flt_pc' = "loop"
    /\ UNCHANGED <<flt_geo, j_host_buffer, rs_, converted>>
    /\ UNCHANGED notFilter

\* j_host_buffer[k] = j of an array of filter_length_ entries
StoreIndex(k, j) ==
    [x \in DOMAIN j_host_buffer \cup {k} |-> IF x = k THEN j ELSE j_host_buffer[x]]

\* one iteration of for(k = 0; k <= filter_length_; ++k, ++j): the store of
\* the iteration k = filter_length_ lies past the end of the array; it lands in
\* the memory behind the array or it faults
filterProcessor_loop ==
    /\ flt_pc = "loop"
    /\ j_loop.k <= flt_members.filter_length_
    /\ \/ /\ j_host_buffer' = StoreIndex(j_loop.k, j_loop.j)
          /\ j_loop' = [k |-> j_loop.k + 1, j |-> j_loop.j + 1]
          /\ flt_pc' = "loop"
       \/ /\ j_loop.k >= flt_members.filter_length_
          /\ flt_pc' = "fault"
          /\ UNCHANGED <<j_host_buffer, j_loop>>
    /\ UNCHANGED <<flt_geo, flt_members, rs_, converted>>
    /\ UNCHANGED notFilter

\* r[x] of createFilter as rat + pi2 / pi^2, from j[x] and tau
createFilter_r(j, tau) ==
    IF j = 0
    THEN [rat |-> QMul(Q(1, 8), QDiv(QInt(1), QMul(tau, tau))), pi2 |-> QInt(0)]
    ELSE IF CRem(j, 2) = 0
         THEN [rat |-> QInt(0), pi2 |-> QInt(0)]
         ELSE [rat |-> QInt(0),
               pi2 |-> QDiv(QInt(-1), QMul(QInt(2 * j * j), QMul(tau, tau)))]

\* the end of the loop, the copy of filter_length_ entries to the device and
\* the launch of createFilter: thread x < size writes r[x]
createFilter ==
    /\ flt_pc = "loop"
    /\ j_loop.k > flt_members.filter_length_
    /\ rs_' = [x \in 0..(flt_members.filter_length_ - 1) |->
                  createFilter_r(j_host_buffer[x], flt_members.tau_)]
    /\ flt_pc' = "processor"
    /\ UNCHANGED <<flt_geo, flt_members, j_loop, j_host_buffer, converted>>
    /\ UNCHANGED notFilter

\* convertProjection, launched by processor on a projection of the detector's
\* size: thread (x, y) with x < filter_length and y < height
convertProjection ==
    /\ flt_pc = "processor"
    /\ converted' = [y \in 0..(flt_geo.det_pixels_column - 1) |->
                        [x \in 0..(flt_members.filter_length_ - 1) |->
                            IF x < flt_geo.det_pixels_row THEN img_data(x, y) ELSE 0]]
    /\ flt_pc' = "converted"
    /\ UNCHANGED <<flt_geo, flt_members, j_loop, j_host_buffer, rs_>>
    /\ UNCHANGED notFilter

FilterNext ==
    \/ CUDAFilter_CUDAFilter
    \/ filterProcessor_loop
    \/ createFilter
    \/ convertProjection

FilterSpec == FilterInit /\ [][FilterNext]_vars

IsPowerOfTwo(n) == \E e \in 0..n : Pow2(e) = n

\* C23: the filter length is a power of two, and the padded buffer keeps the
\* whole projection: columns [0, width) of every row are the projection's,
\* columns [width, L) are zero, so L >= width for every detector geometry
C23_PaddedBufferKeepsProjection ==
    /\ flt_members # << >> => IsPowerOfTwo(flt_members.filter_length_)
    /\ converted # << >> =>
          /\ flt_members.filter_length_ >= flt_geo.det_pixels_row
          /\ \A y \in 0..(flt_geo.det_pixels_column - 1) :
                /\ \A x \in 0..(flt_geo.det_pixels_row - 1) :
                      /\ x \in DOMAIN converted[y]
                      /\ converted[y][x] = img_data(x, y)
                /\ \A x \in flt_geo.det_pixels_row..(flt_members.filter_length_ - 1) :
                      converted[y][x] = 0

\* C24: the loop stores exactly the L values -(L-2)/2 .. L/2, at positions
\* 0 .. L-1 only, position k holding k - (L-2)/2; r is 1/(8 tau^2) at j = 0,
\* zero at the other even j, negative and symmetric at odd j
C24_IndexBufferAndKernel ==
    /\ \A k \in DOMAIN j_host_buffer :
          /\ k \in 0..(flt_members.filter_length_ - 1)
          /\ j_host_buffer[k] = k - (flt_members.filter_length_ - 2) \div 2
    /\ rs_ # << >> =>
          /\ DOMAIN j_host_buffer = 0..(flt_members.filter_length_ - 1)
          /\ \A x \in DOMAIN rs_ :
                LET j == x - (flt_members.filter_length_ - 2) \div 2
                IN  /\ j = 0 => rs_[x] = [rat |-> QDiv(QInt(1), QMul(QInt(8), QMul(flt_members.tau_, flt_members.tau_))),
                                          pi2 |-> QInt(0)]
                    /\ (j # 0 /\ j % 2 = 0) => rs_[x] = [rat |-> QInt(0), pi2 |-> QInt(0)]
                    /\ j % 2 = 1 => /\ rs_[x].rat = QInt(0)
                                    /\ QLt(rs_[x].pi2, QInt(0))
                                    /\ \A x2 \in DOMAIN rs_ :
                                          x2 - (flt_members.filter_length_ - 2) \div 2 = -j
                                              => rs_[x2] = rs_[x]


\* how often the valid projection of index i is in a queue
IndexCount(q, i) == Cardinality({k \in DOMAIN q : q[k].valid /\ q[k].index = i})

\* C25: each stage forwards every valid projection it receives exactly once:
\* no index is in the output more often than it was received, and when the
\* stage has emitted the sentinel every index is in the output as often as it
\* was received
C25_ForwardsExactlyOnce ==
    \A i \in 0..MaxProjs :
        /\ IndexCount(output_, i) <= IndexCount(received_, i)
        /\ run_pc = "done" => IndexCount(output_, i) = IndexCount(received_, i)


(***************************************************************************)
(* Properties of the routing, the launches and the end of the stream       *)
(***************************************************************************)
\* how often the valid projection of index i is waiting in a queue or held by
\* a worker that has not launched its kernels yet
InFlight(i) ==
    LET Count(q) == Cardinality({k \in DOMAIN q : q[k].valid /\ q[k].index = i})
        Holds(d) == IF proc_pc[d] \in {"wait"} \cup PastWait /\ proc_img[d].index = i
                    THEN 1 ELSE 0
        RECURSIVE Sum(_)
        Sum(n) == IF n = 0 THEN 0
                  ELSE Sum(n - 1) + Count(map_imgs_[n - 1]) + Holds(n - 1)
    IN  Count(fdk_input) + Sum(fdk_devices_)

\* the launches on device d for projection i into sub-volume v
KernelsFor(d, i, v) ==
    {k \in DOMAIN kernel_log[d] : kernel_log[d][k].index = i /\ kernel_log[d][k].volume = v}

\* the projection of index i has been back-projected on device d
BackprojectedOn(d, i) == \E k \in DOMAIN kernel_log[d] : kernel_log[d][k].index = i

\* C26: a valid projection is queued only for the worker of its own device;
\* that worker launches exactly one kernel for it into every sub-volume of the
\* device, with the sine and cosine stored in the tables at the projection's
\* index; the sentinel launches nothing; and every launch on a device finds
\* all sub-volumes of the device allocated and zeroed
C26_RoutedAndBackprojectedOnce ==
    /\ \A d \in FdkDevices :
          /\ \A k \in DOMAIN map_imgs_[d] : map_imgs_[d][k].valid => map_imgs_[d][k].device = d
          /\ proc_pc[d] \in {"wait"} \cup PastWait =>
                proc_img[d].valid /\ proc_img[d].device = d
          /\ \A k \in DOMAIN kernel_log[d] :
                /\ kernel_log[d][k].device = d
                /\ kernel_log[d][k].index + 1 \in DOMAIN sin_tab_
                /\ kernel_log[d][k].index + 1 \in DOMAIN cos_tab_
                /\ kernel_log[d][k].sin = sin_tab_[kernel_log[d][k].index + 1]
                /\ kernel_log[d][k].cos = cos_tab_[kernel_log[d][k].index + 1]
                /\ kernel_log[d][k].zeroed
          /\ kernel_log[d] # << >> =>
                /\ ctor_pc = "constructed"
                /\ Len(fdk_volume_map_[d]) = fdk_scheduler_.volumes_per_device[d]
    /\ \A i \in 0..(num_arg - 1) :
          /\ \A d \in FdkDevices :
                \A v \in 1..fdk_scheduler_.volumes_per_device[d] :
                   Cardinality(KernelsFor(d, i, v)) = IF BackprojectedOn(d, i) THEN 1 ELSE 0
          /\ InFlight(i) + Cardinality({d \in FdkDevices : BackprojectedOn(d, i)}) = 1


\* the sentinels process has pushed for device d: those waiting in its queue
\* and the one its worker has taken
SentinelsFor(d) ==
    SentinelCount(map_imgs_[d]) + (IF proc_pc[d] = "terminated" THEN 1 ELSE 0)

\* everything pushed to results_ so far, in order
ResultsHistory == wait_values \o fdk_results_

\* the merged volume of the plan's dimensions
MergedVolume ==
    output_type(fdk_scheduler_.vol_geo_.dim_x, fdk_scheduler_.vol_geo_.dim_y,
                fdk_scheduler_.vol_geo_.dim_z)

\* C27: on the sentinel every device worker is sent exactly one sentinel; the
\* merge begins only when every worker has terminated; done_ is set only when
\* the merged volume is in results_; so the first value wait returns is the
\* one valid merged volume of (dim_x, dim_y, dim_z) and the only later value
\* is the invalid end marker
C27_MergeAfterWorkersThenDone ==
    /\ \A d \in FdkDevices :
          SentinelsFor(d) = IF process_pc \in {"idle", "process"} THEN 0 ELSE 1
    /\ process_pc \in {"merge_volumes", "push", "set_done", "done"} => AllTerminated
    /\ ResultsHistory # << >> => AllTerminated
    /\ ResultsHistory \in {<< >>, <<MergedVolume>>, <<MergedVolume, Sentinel>>}
    /\ done_ => ResultsHistory = <<MergedVolume, Sentinel>>
    /\ wait_values # << >> => done_

\* two workers have back-projected, the sink has been handed the merged
\* volume and then the end marker
C27_Witness ==
    /\ fdk_devices_ = 2
    /\ kernel_log[0] # << >>
    /\ kernel_log[1] # << >>
    /\ wait_values = <<MergedVolume, Sentinel>>


(***************************************************************************)
(* Termination of the back-projection stage                                *)
(***************************************************************************)
\* the steps of the stage's own threads: the constructor, the thread calling
\* process, the device workers, the sink calling wait, and the second store
\* of set_input_num; whether the source calls set_input_num is up to the source
FdkThreads ==
    \/ Feldkamp_ctor
    \/ parse_angles_loop
    \/ set_input_num_set
    \/ Feldkamp_process
    \/ Feldkamp_join
    \/ Feldkamp_merge_volumes
    \/ Feldkamp_push
    \/ Feldkamp_done
    \/ Feldkamp_wait
    \/ processor_take
    \/ processor_wait
    \/ processor_check
    \/ processor_call_once
    \/ lambda_resize
    \/ lambda_fill
    \/ call_once_return
    \/ processor_launch

\* the constructions followed to their end: without angle file, with the file
\* "45\n" and with the file "5\n", one sub-volume on every device
FdkFairAngles ==
    {NoAngleFile} \cup {[name |-> "angles", openable |-> TRUE, tokens |-> <<a>>, eol |-> TRUE] :
                            a \in AngleValues}

FdkFairInit ==
    /\ FdkInit
    /\ angles \in FdkFairAngles
    /\ \A d \in FdkDevices : fdk_scheduler_.volumes_per_device[d] = 1

\* the stage under a fair scheduler: a thread that can take a step does
FdkFairSpec == FdkFairInit /\ [][FdkNext]_vars /\ WF_vars(FdkThreads)

\* every worker has terminated, done_ is set and wait has returned
FdkFinished == AllTerminated /\ done_ /\ wait_values # << >>

\* the worker of device d is in while(!input_num_set_) with a valid projection
\* and set_input_num has not been called
SpinsUnset(d) ==
    /\ d \in FdkDevices
    /\ proc_pc[d] = "wait"
    /\ proc_img[d].valid
    /\ set_pc = "idle"

\* C28: under fair scheduling of a constructed stage, once set_input_num is
\* called every worker terminates, done_ becomes true and wait returns; and a
\* run in which that never happens is one in which a worker holding a valid
\* projection spins for ever while set_input_num is never called
C28_TerminatesUnlessInputNumUnset ==
    /\ (ctor_pc = "constructed" /\ set_pc # "idle") ~> FdkFinished
    /\ \/ <>(ctor_pc = "bad_alloc")
       \/ <>FdkFinished
       \/ \E d \in 0..MaxDevices : <>[]SpinsUnset(d)

\* two workers have each waited for set_input_num, and the stage has finished
C28_Witness ==
    /\ fdk_devices_ = 2
    /\ FdkFinished
    /\ set_pc = "done"
    /\ \A d \in FdkDevices : kernel_log[d] # << >>


\* C29: for an angle file that can be opened and holds k angles, one per line,
\* parse_angles terminates with tables of exactly k entries, entry i the sine
\* and cosine of the angle on line i: it reads every line once and appends
\* nothing once the end of the file is reached
C29_ParseAnglesExact ==
    angles.openable =>
       /\ ctor_pc # "bad_alloc"
       /\ Len(sin_tab_) <= Len(angles.tokens)
       /\ Len(cos_tab_) = Len(sin_tab_)
       /\ \A i \in DOMAIN sin_tab_ :
             /\ sin_tab_[i] = SinOf(angles.tokens[i])
             /\ cos_tab_[i] = CosOf(angles.tokens[i])
       /\ ctor_pc = "constructed" => Len(sin_tab_) = Len(angles.tokens)

=============================================================================
